---- MODULE Spec2Model ----
(***************************************************************************)
(* A model of lingoanki/diary.py: the markdown diary parser, the entry     *)
(* enricher, the diary writer (class DiaryHandler) and the synchronizer of *)
(* the TPRS question/answer artifacts (class TprsCreation).                *)
(*                                                                         *)
(* A text is a sequence of tokens.  A token is one character ("a", " ",    *)
(* "-", ":", "*", "#", "\n"), a whole date "YYYY/MM/DD" ("D1", "D2", ...)  *)
(* or one of the configured marker strings of config["template_diary"]     *)
(* and config["template_tprs"] ("TRIAL", "ANSWER", "TIPS", "SENT", "QUES", *)
(* "ANSW"), which the code only ever uses as whole strings.                *)
(***************************************************************************)
EXTENDS Integers, Sequences, FiniteSets, TLC

-----------------------------------------------------------------------------
(* Bounds of the model *)

\* number of program runs (processes started one after the other)
MaxRuns == 2

-----------------------------------------------------------------------------
(* Tokens *)

Dates == {"D1", "D2", "D3"}

\* the calendar order of the dates, as datetime compares them
DateOrd(d) == CASE d = "D1" -> 1 [] d = "D2" -> 2 [] OTHER -> 3

\* what the regular expression class \s and str.strip() take for whitespace
WS == {" ", "\n"}

NL == "\n"

-----------------------------------------------------------------------------
(* Python string primitives on token sequences *)

\* s[i:j] of Python, 1-based and inclusive here; empty when j < i
Slice(s, i, j) == IF j < i THEN << >> ELSE SubSeq(s, i, j)

\* the least element of a non-empty set of numbers
Min(S) == CHOOSE n \in S : \A m \in S : n <= m

\* the element of a one-element set: { F(v) : v \in {e} } computes e once
\* and hands F its value
Only(S) == CHOOSE v \in S : TRUE

\* first index >= from with s[index] = tok, or 0
IndexOf(s, tok, from) ==
    LET hits == { i \in from..Len(s) : s[i] = tok }
    IN  IF hits = {} THEN 0 ELSE Min(hits)

\* first index >= from where the two tokens t1 t2 stand side by side, or 0
IndexOf2(s, t1, t2, from) ==
    LET hits == { i \in from..(Len(s) - 1) : s[i] = t1 /\ s[i + 1] = t2 }
    IN  IF hits = {} THEN 0 ELSE Min(hits)

\* first index >= from that holds no whitespace, Len(s) + 1 when there is none
SkipWS(s, from) ==
    LET hits == { i \in from..Len(s) : s[i] \notin WS }
    IN  IF hits = {} THEN Len(s) + 1 ELSE Min(hits)

\* last index <= to that holds no whitespace, 0 when there is none
RECURSIVE SkipWSBack(_, _)
SkipWSBack(s, to) ==
    IF to < 1 THEN 0
    ELSE IF s[to] \in WS THEN SkipWSBack(s, to - 1)
    ELSE to

\* str.strip()
Strip(s) == Slice(s, SkipWS(s, 1), SkipWSBack(s, Len(s)))

\* str.replace(tok, "") for a one-character tok
RemoveTok(s, tok) == SelectSeq(s, LAMBDA t : t # tok)

\* str.replace("**", ""), scanning left to right
RECURSIVE RemoveStarStar(_)
RemoveStarStar(s) ==
    LET i == IndexOf2(s, "*", "*", 1)
    IN  IF i = 0 THEN s
        ELSE Slice(s, 1, i - 1) \o RemoveStarStar(Slice(s, i + 2, Len(s)))

\* str.split("\n")
RECURSIVE SplitLines(_)
SplitLines(s) ==
    LET i == IndexOf(s, NL, 1)
    IN  IF i = 0 THEN <<s>>
        ELSE <<Slice(s, 1, i - 1)>> \o SplitLines(Slice(s, i + 1, Len(s)))

\* "\n".join(lines)
RECURSIVE JoinLines(_)
JoinLines(ls) ==
    IF ls = << >> THEN << >>
    ELSE IF Len(ls) = 1 THEN ls[1]
    ELSE ls[1] \o <<NL>> \o JoinLines(Tail(ls))

\* the concatenation of a sequence of texts
RECURSIVE Concat(_)
Concat(ss) == IF ss = << >> THEN << >> ELSE Head(ss) \o Concat(Tail(ss))

\* read_markdown_file: clean_joplin_markdown cuts the text at the first
\* "id: <alphanumerics>" (no text of this model's alphabet holds one) and
\* strips the result
ReadMarkdown(text) == Strip(text)

-----------------------------------------------------------------------------
(* Optional values: Python's None against a string *)

None == [isNone |-> TRUE, val |-> << >>]
Some(v) == [isNone |-> FALSE, val |-> v]

-----------------------------------------------------------------------------
(* The template matcher and the diary parser (DiaryHandler) *)

\* the line is a day header for re.match(r"^## (\d{4}/\d{2}/\d{2})(.*)", line)
IsHeaderLine(line) ==
    /\ Len(line) >= 4
    /\ line[1] = "#" /\ line[2] = "#" /\ line[3] = " "
    /\ line[4] \in Dates

\* re.findall(r"^##\s(\d{4}/\d{2}/\d{2})", text, re.MULTILINE), line by line:
\* "##", one whitespace (a blank, or the end of a line that is "##" alone)
\* and a date
RECURSIVE HeaderDatesIn(_)
HeaderDatesIn(lines) ==
    IF lines = << >> THEN << >>
    ELSE LET line == Head(lines)
             sameLine == /\ Len(line) >= 4
                         /\ line[1] = "#" /\ line[2] = "#" /\ line[3] = " "
                         /\ line[4] \in Dates
             nextLine == /\ line = <<"#", "#">>
                         /\ Len(lines) >= 2
                         /\ Len(lines[2]) >= 1
                         /\ lines[2][1] \in Dates
         IN  (IF sameLine THEN <<line[4]>>
              ELSE IF nextLine THEN <<lines[2][1]>>
              ELSE << >>) \o HeaderDatesIn(Tail(lines))

\* a faulty variant of extract_dates_from_md: the dates in calendar order
extract_dates_sorted(fileText) ==
    SortSeq(HeaderDatesIn(SplitLines(ReadMarkdown(fileText))),
            LAMBDA a, b : DateOrd(a) < DateOrd(b))

\* extract_dates_from_md: the dates of the headers of a file, in text order
extract_dates_from_md(fileText) == HeaderDatesIn(SplitLines(ReadMarkdown(fileText)))

\* the loop of get_title_for_date over the lines
RECURSIVE TitleInLines(_, _)
TitleInLines(lines, target) ==
    IF lines = << >> THEN None
    ELSE LET line == Head(lines)
             rest == Slice(line, 5, Len(line))
         IN  IF IsHeaderLine(line) /\ line[4] = target
                /\ IndexOf(rest, ":", 1) # 0
             THEN Some(Strip(RemoveTok(rest, ":")))
             ELSE TitleInLines(Tail(lines), target)

get_title_for_date(text, target) == TitleInLines(SplitLines(text), target)

\* the loop of get_text_for_date over the lines: capture is the flag of the code
RECURSIVE CaptureLines(_, _, _)
CaptureLines(lines, target, capture) ==
    IF lines = << >> THEN << >>
    ELSE LET line == Head(lines)
         IN  IF IsHeaderLine(line)
             THEN IF line[4] = target
                  THEN CaptureLines(Tail(lines), target, TRUE)
                  ELSE IF capture THEN << >>
                       ELSE CaptureLines(Tail(lines), target, capture)
             ELSE IF capture
                  THEN <<line>> \o CaptureLines(Tail(lines), target, capture)
                  ELSE CaptureLines(Tail(lines), target, capture)

get_text_for_date(text, target) ==
    Strip(JoinLines(CaptureLines(SplitLines(text), target, FALSE)))

(* The entry pattern, with re.DOTALL:                                      *)
(*   -\s*\*\*(.*?)\*\*.*?TRIAL\s*(.*?)\s*ANSWER\s*(.*?)\s*TIPS\s*(.*?)\s*(?=-|\Z) *)
(* MatchEntryAt gives the match that starts at the "-" at index i, or      *)
(* found = FALSE.  Each lazy group ends at the first place where the rest  *)
(* of the pattern can match: the first "**", the first TRIAL after it, the *)
(* first ANSWER after that, the first TIPS after that, and the first "-"   *)
(* after that (or the end of the text).                                    *)
NoMatch == [found |-> FALSE]

MatchEntryAt(s, i) ==
    IF i > Len(s) \/ s[i] # "-" THEN NoMatch
    ELSE
    LET open == SkipWS(s, i + 1)
    IN  IF ~(open + 1 <= Len(s) /\ s[open] = "*" /\ s[open + 1] = "*") THEN NoMatch
        ELSE
        LET close == IndexOf2(s, "*", "*", open + 2)
            tr == IF close = 0 THEN 0 ELSE IndexOf(s, "TRIAL", close + 2)
            an == IF tr = 0 THEN 0 ELSE IndexOf(s, "ANSWER", tr + 1)
            tp == IF an = 0 THEN 0 ELSE IndexOf(s, "TIPS", an + 1)
            dash == IF tp = 0 THEN 0 ELSE IndexOf(s, "-", tp + 1)
            stop == IF dash = 0 THEN Len(s) + 1 ELSE dash
        IN  IF tp = 0 THEN NoMatch
            ELSE [found |-> TRUE,
                  primary |-> Slice(s, open + 2, close - 1),
                  trial |-> Strip(Slice(s, tr + 1, an - 1)),
                  study |-> Strip(Slice(s, an + 1, tp - 1)),
                  tips |-> Strip(Slice(s, tp + 1, stop - 1)),
                  stop |-> stop]

\* re.findall(pattern, block, re.DOTALL | re.MULTILINE): the matches from
\* index i on, leftmost first, never overlapping
RECURSIVE FindEntriesFrom(_, _)
FindEntriesFrom(s, i) ==
    LET d == IndexOf(s, "-", i)
    IN  IF d = 0 THEN << >>
        ELSE LET m == MatchEntryAt(s, d)
             IN  IF m.found
                 THEN <<m>> \o FindEntriesFrom(s, m.stop)
                 ELSE FindEntriesFrom(s, d + 1)

FindEntries(block) == FindEntriesFrom(block, 1)

-----------------------------------------------------------------------------
(* The diary structure: an insertion-ordered dict, held as a sequence of   *)
(* days [key, sentences, title]; sentences is the dict of one day, held as *)
(* a sequence of [no, e].  A key is a datetime (a parsed header) or a date *)
(* (the day the user is prompted for): the two never compare equal.        *)

DtKey(d) == [kind |-> "datetime", d |-> d]
DateKey(d) == [kind |-> "date", d |-> d]

HasKey(dict, k) == \E i \in 1..Len(dict) : dict[i].key = k

\* dict[day.key] = day: an existing key keeps its place
DictSet(dict, day) ==
    IF HasKey(dict, day.key)
    THEN [i \in 1..Len(dict) |-> IF dict[i].key = day.key THEN day ELSE dict[i]]
    ELSE Append(dict, day)

\* new | old of two dicts: the keys of new first, old's values win
RECURSIVE DictMerge(_, _)
DictMerge(new, old) ==
    IF old = << >> THEN new
    ELSE DictMerge(DictSet(new, Head(old)), Tail(old))

\* one entry of markdown_diary_to_dict from one match of the pattern
EntryOfMatch(m) ==
    [primary |-> Strip(RemoveStarStar(m.primary)),
     trial |-> Strip(m.trial),
     study |-> Strip(m.study),
     tips |-> Strip(m.tips),
     hasStudy |-> TRUE]

\* diary_day_dict: the matches of one day numbered from 0
DaySentences(entries) ==
    [i \in 1..Len(entries) |-> [no |-> i - 1, e |-> EntryOfMatch(entries[i])]]

\* the loop over dates_diary of markdown_diary_to_dict: a date whose block
\* holds no entry gets no key
RECURSIVE ParseDays(_, _, _)
ParseDays(dates, text, dict) ==
    IF dates = << >> THEN dict
    ELSE LET entries == FindEntries(get_text_for_date(text, Head(dates)))
         IN  Only({ ParseDays(Tail(dates), text, a) : a \in {
                IF entries = << >> THEN dict
                ELSE DictSet(dict, [key |-> DtKey(Head(dates)),
                                    sentences |-> DaySentences(entries),
                                    title |-> None]) } })

\* not sentence_info.get("study_language_sentence")
Incomplete(e) == ~e.hasStudy \/ e.study = << >>

DayComplete(day) ==
    \A j \in 1..Len(day.sentences) : ~Incomplete(day.sentences[j].e)

\* not any(not sentence_info.get(...) for diary in diary_dict.values() ...)
AllComplete(dict) == \A i \in 1..Len(dict) : DayComplete(dict[i])

\* the day holds an entry without the key "study_language_sentence"
DayBroken(day) ==
    \E j \in 1..Len(day.sentences) : ~day.sentences[j].e.hasStudy

(* get_all_days_title, day by day.  tresp[k] is what                       *)
(* openai_create_day_title answers to the k-th call.  acc holds the titles *)
(* so far (one per day, in the order of the dict), a log record per call   *)
(* made, and whether the function has raised: openai_create_day_title      *)
(* reads entry["study_language_sentence"] of every entry before it calls.  *)
RECURSIVE TitleLoop(_, _, _, _, _, _, _)
TitleLoop(dict, i, new, all, text, tresp, acc) ==
    IF i > Len(dict) \/ acc.raised THEN acc
    ELSE LET hdr == get_title_for_date(text, dict[i].key.d)
             call == IF new THEN TRUE ELSE hdr.isNone /\ all
             k == Len(acc.log) + 1
         IN  Only({ TitleLoop(dict, i + 1, new, all, text, tresp, a) : a \in {
                IF ~call
                THEN [acc EXCEPT !.titles = Append(@, hdr)]
                ELSE IF DayBroken(dict[i])
                THEN [acc EXCEPT !.raised = TRUE]
                ELSE [titles |-> Append(acc.titles,
                                        IF k <= Len(tresp) THEN Some(tresp[k]) ELSE None),
                      log |-> Append(acc.log,
                                     [key |-> dict[i].key,
                                      complete |-> DayComplete(dict[i]),
                                      header |-> hdr]),
                      raised |-> FALSE] } })

get_all_days_title(dict, new, text, tresp) ==
    TitleLoop(dict, 1, new, AllComplete(dict), text, tresp,
              [titles |-> << >>, log |-> << >>, raised |-> FALSE])

-----------------------------------------------------------------------------
(* The diary writer *)

\* a faulty variant of HeaderText: the title is never written
HeaderText_NoTitle(d, title) == <<"#", "#", " ", d, " ", NL>>

\* the header line write_diary writes for a day
HeaderText(d, title) ==
    IF title = << >>
    THEN <<"#", "#", " ", d, " ", NL>>
    ELSE <<"#", "#", " ", d, ":", " ">> \o title \o <<" ", NL>>

BulletText(e) == <<"-", " ", "*", "*">> \o e.primary \o <<"*", "*", NL>>
TrialText(e) == <<" ", " ", "TRIAL", " ">> \o e.trial \o <<NL>>
AnswerText(e) == <<" ", " ", "ANSWER", " ">> \o e.study \o <<NL>>
TipsText(e) == <<" ", " ", "TIPS", " ">> \o e.tips \o <<NL, NL>>

\* the four file.write calls of one entry
EntryText(e) == BulletText(e) \o TrialText(e) \o AnswerText(e) \o TipsText(e)

\* what has been written when sentence_dict['study_language_sentence'] raises
BrokenEntryText(e) == BulletText(e) \o TrialText(e)

\* the entries of one day up to (and with the start of) the first broken one
RECURSIVE SentencesText(_)
SentencesText(sents) ==
    IF sents = << >> THEN << >>
    ELSE IF ~Head(sents).e.hasStudy THEN BrokenEntryText(Head(sents).e)
    ELSE EntryText(Head(sents).e) \o SentencesText(Tail(sents))

\* None is written as ""
TitleOrEmpty(t) == IF t.isNone THEN << >> ELSE t.val

\* the loop of write_diary over the days, stopping at the first broken day
RECURSIVE DaysText(_, _)
DaysText(dict, titles) ==
    IF dict = << >> \/ titles = << >> THEN << >>
    ELSE HeaderText(Head(dict).key.d, TitleOrEmpty(Head(titles)))
         \o SentencesText(Head(dict).sentences)
         \o (IF DayBroken(Head(dict)) THEN << >>
             ELSE DaysText(Tail(dict), Tail(titles)))

DictBroken(dict) == \E i \in 1..Len(dict) : DayBroken(dict[i])

\* write_diary: the titles it got, the title calls it made, whether it raised
\* and what the file at markdown_script_generated_diary_path holds afterwards
\* (old is what it held before: the file is opened only after the titles are
\* known).
write_diary(dict, new, text, tresp, old) ==
    LET t == get_all_days_title(dict, new, text, tresp)
    IN  [log |-> t.log,
         titles |-> t.titles,
         raised |-> t.raised \/ DictBroken(dict),
         opened |-> ~t.raised,
         text |-> IF t.raised THEN old ELSE DaysText(dict, t.titles)]

-----------------------------------------------------------------------------
(* Inputs: the diary files a run may find, written after the template of   *)
(* the module docstring, and what the user and the collaborators answer    *)

\* datetime.now().date() of the runs
Today == "D3"

Ent(p, t, s, x) == [primary |-> p, trial |-> t, study |-> s, tips |-> x, hasStudy |-> TRUE]

SrcDay(d, head, entries) == [d |-> d, head |-> head, entries |-> entries]

\* one day of a hand-written diary: "## <date><head>" and its entry blocks
SrcDayText(day) ==
    <<"#", "#", " ", day.d>> \o day.head \o <<NL>>
    \o Concat([i \in 1..Len(day.entries) |-> EntryText(day.entries[i])])

\* a hand-written diary under its year heading "# <year>"
SrcText(days) ==
    <<"#", " ", "y", NL, NL>> \o Concat([i \in 1..Len(days) |-> SrcDayText(days[i])])

E_todo == Ent(<<"a">>, << >>, << >>, << >>)
E_tried == Ent(<<"b", " ", "a">>, <<"q">>, << >>, << >>)
E_done1 == Ent(<<"c">>, <<"q">>, <<"d">>, <<"e">>)
E_done2 == Ent(<<"f", "-", "g">>, << >>, <<"h", "-", "i">>, <<"j">>)
E_done3 == Ent(<<"k">>, <<"l">>, <<"m">>, << >>)
E_done4 == Ent(<<"n">>, <<"o">>, <<"p">>, <<"s", "-", "t">>)

H_none == << >>
H_t == <<":", " ", "t">>
H_u == <<":", " ", "u", " ", "v">>
H_c == <<":", " ", "w", ":", "v">>

InitialDiaries ==
    { SrcText(<<SrcDay("D1", H_none, <<E_todo>>)>>),
      SrcText(<<SrcDay("D2", H_t, <<E_done1, E_done2>>),
                SrcDay("D1", H_none, <<E_todo, E_tried>>)>>),
      SrcText(<<SrcDay("D2", H_t, <<E_done1>>),
                SrcDay("D1", H_u, <<E_done2, E_done3>>)>>),
      SrcText(<<SrcDay("D2", H_none, <<E_done1>>)>>),
      SrcText(<<SrcDay("D1", H_c, <<E_done1, E_todo, E_done3>>)>>),
      SrcText(<<SrcDay("D2", H_c, <<E_done4>>)>>),
      << >> }

\* what the user types at the prompt: no new entry, or the sentences of today
\* with the trial translation of each
PromptInputs ==
    { << >>,
      <<[primary |-> <<"n">>, trial |-> <<"o">>]>>,
      <<[primary |-> <<"n">>, trial |-> <<"o">>], [primary |-> <<"p">>, trial |-> << >>]>> }

\* what openai_create_day_title may return
TitleResponses == { <<"x">>, <<"y">> }

(* What openai_translate_sentence may do: return the "sentence" object of  *)
(* the response (echo: with the primary sentence it was given, else with a *)
(* corrected one), return one without the key "study_language_sentence",   *)
(* or raise (the API call fails, the content is no JSON or has no          *)
(* "sentence").  trial is the "study_language_sentence_trial" the object   *)
(* holds when it comes back from the model.                                *)
R_ok == [kind |-> "ok", echo |-> TRUE, study |-> <<"r">>, tips |-> <<"s">>,
         trial |-> << >>]
R_fixed == [kind |-> "ok", echo |-> FALSE, study |-> <<"r">>, tips |-> <<"s", "-", "t">>,
            trial |-> <<"v">>]
R_nokey == [kind |-> "nokey", echo |-> TRUE, study |-> << >>, tips |-> << >>,
            trial |-> <<"v">>]
R_raise == [kind |-> "raise", echo |-> TRUE, study |-> << >>, tips |-> << >>,
            trial |-> << >>]

TranslateResponses == { R_ok, R_fixed, R_nokey, R_raise }

\* the primary sentence of a response that corrects the sentence it was given
FixedPrimary == <<"z">>

-----------------------------------------------------------------------------
(* State *)

VARIABLES
    pc,                    \* where the run stands
    run,                   \* the number of the run
    overwrite,             \* config["overwrite_diary_markdown"]
    auto,                  \* config["create_diary_answers_auto"]
    diaryExists,           \* the file at markdown_diary_path exists
    diaryFile,             \* what the file at markdown_diary_path holds
    outFile,               \* what the file in output_dir holds (overwrite false)
    new_diary,             \* self.new_diary
    diary_new_entries_day, \* self.diary_new_entries_day (<< >> for None)
    typed,                 \* the sentences the user has typed at the prompt of this run
    all_diary_text,        \* self.all_diary_text
    diary_dict,            \* diary_dict of diary_complete_translations
    cursor,                \* the next entry of the loop of diary_complete_translations
    parsed,                \* what markdown_diary_to_dict returned in this run
    startFile,             \* what the diary file held when the run began
    trCalls,               \* the calls of openai_translate_sentence of this run
    titleCalls,            \* the calls of openai_create_day_title of this run
    written,               \* the dicts handed to write_diary in this run, with the titles
    prev,                  \* how the run before ended: its last write and its output
    overwrite_tprs,        \* config["overwrite_tprs_markdown"]
    tprsFile,              \* the file at markdown_tprs_path (None: there is none)
    tprsGen,               \* the file in output_dir (overwrite_tprs_markdown false)
    titles_dict,           \* self.titles_dict of TprsCreation
    tprs_dict,             \* tprs_dict of the synchronizer: what it read
    tq,                    \* the calls of openai_tprs still to make, and the answers so far
    tprsCalls,             \* the calls of openai_tprs of this run
    tprsSeen,              \* what the file written to held when the operation began
    backup,                \* the backup copy of the diary made in this run (None: none)
    inPlace,               \* the file at markdown_diary_path has been written in this run
    audioCfg,              \* overwrite_tprs_audio as the configuration file has it
    overwrite_tprs_audio,  \* self.config["overwrite_tprs_audio"] of this run
    audio,                 \* the audio lessons in output_dir/TPRS and what each renders
    audioLog,              \* the calls of create_tprs_audio of this run
    resynced,              \* the days the sync has regenerated a unit of, not rendered since
    variantFile,           \* the files at markdown_tprs_enhanced/future/present_path
    variantGen,            \* their files in output_dir (overwrite_tprs_markdown false)
    vi,                    \* the next of add_missing_tprs_enhanced, _future, _present
    variantCalls,          \* the calls of openai_tprs_enhanced, _future, _present of this run
    variantSeen,           \* what the artifacts held when the last add_missing_tprs_* began
    idLog,                 \* the calls of generate_unique_id and what they returned
    blockText,             \* the day block handed to read_tprs_day_block
    blockRead,             \* what read_tprs_day_block has returned for it (None: no call yet)
    deck                   \* what convert_diary_entries_to_ankideck made in this run (None: no call yet)

diaryVars == <<overwrite, auto, diaryExists, diaryFile, outFile, new_diary,
               diary_new_entries_day, typed, all_diary_text, diary_dict, cursor, parsed,
               startFile, trCalls, titleCalls, written, prev>>

tprsVars == <<overwrite_tprs, tprsFile, tprsGen, titles_dict, tprs_dict, tq,
              tprsCalls, tprsSeen>>

audioVars == <<audioCfg, overwrite_tprs_audio, audio, audioLog, resynced>>

variantVars == <<variantFile, variantGen, vi, variantCalls, variantSeen>>

\* the variants of the artifact besides the base one, in the order of main()
VariantOrder == <<"enhanced", "future", "present">>

Variants == { VariantOrder[n] : n \in 1..Len(VariantOrder) }

bakVars == <<backup, inPlace>>

blockVars == <<blockText, blockRead>>

vars == <<pc, run, diaryVars, tprsVars, bakVars, audioVars, variantVars, idLog, blockVars, deck>>

\* the file at markdown_script_generated_diary_path
GenText == IF overwrite THEN diaryFile ELSE outFile

\* no call of openai_tprs is waited for
NoCalls == [op |-> "none", todo |-> << >>, got |-> << >>]

\* TprsCreation is not running
TprsIdle ==
    /\ overwrite_tprs = FALSE
    /\ tprsFile = None
    /\ tprsGen = None
    /\ titles_dict = << >>
    /\ tprs_dict = << >>
    /\ tq = NoCalls
    /\ tprsCalls = << >>
    /\ tprsSeen = None
    /\ audioCfg = FALSE
    /\ overwrite_tprs_audio = FALSE
    /\ audio = << >>
    /\ audioLog = << >>
    /\ resynced = {}
    /\ variantFile = [v \in Variants |-> None]
    /\ variantGen = [v \in Variants |-> None]
    /\ vi = 1
    /\ variantCalls = << >>
    /\ variantSeen = None
    /\ idLog = << >>

\* read_tprs_day_block is not called on a block of its own
BlockIdle ==
    /\ blockText = << >>
    /\ blockRead = None

\* no run before this one
NoPrev == [done |-> FALSE, out |-> << >>, w |-> << >>, clean |-> FALSE]

Init ==
    /\ pc = "start"
    /\ run = 1
    /\ overwrite \in BOOLEAN
    /\ auto \in BOOLEAN
    /\ diaryExists \in BOOLEAN
    /\ diaryFile \in (IF diaryExists THEN InitialDiaries ELSE {<< >>})
    /\ outFile = << >>
    /\ new_diary = FALSE
    /\ diary_new_entries_day = << >>
    /\ typed = << >>
    /\ all_diary_text = << >>
    /\ diary_dict = << >>
    /\ cursor = 1
    /\ parsed = << >>
    /\ startFile = diaryFile
    /\ trCalls = << >>
    /\ titleCalls = << >>
    /\ written = << >>
    /\ prev = NoPrev
    /\ TprsIdle
    /\ backup = None
    /\ inPlace = FALSE
    /\ BlockIdle
    /\ deck = None

-----------------------------------------------------------------------------
(* The run of main(): DiaryHandler(), prompt_new_diary_entry(),            *)
(* diary_complete_translations(); a step ends where the code waits for a   *)
(* collaborator or returns.                                                *)

\* shutil.copy of setup_output_diary_markdown: it is called only when
\* overwrite_diary_markdown is set, and it returns (TRUE) or raises (FALSE)
CopyOutcomes == IF overwrite THEN BOOLEAN ELSE {FALSE}

\* DiaryHandler.__init__: validate_arguments creates a missing diary file
\* empty and sets new_diary; setup_output_diary_markdown copies the diary to
\* the backup directory when it is to be overwritten and resolves the path
\* written to (GenText); a copy that raises ends the run
DiaryHandlerInit ==
    /\ pc = "start"
    /\ new_diary' = ~diaryExists
    /\ diaryExists' = TRUE
    /\ diaryFile' = (IF diaryExists THEN diaryFile ELSE << >>)
    /\ startFile' = diaryFile'
    /\ \E copied \in CopyOutcomes :
          /\ backup' = (IF copied THEN Some(diaryFile') ELSE None)
          /\ pc' = (IF overwrite /\ ~copied THEN "crashed" ELSE "constructed")
    /\ inPlace' = inPlace
    /\ UNCHANGED <<run, overwrite, auto, outFile, diary_new_entries_day, typed,
                   all_diary_text, diary_dict, cursor, parsed, trCalls,
                   titleCalls, written, prev>>
    /\ UNCHANGED <<tprsVars, audioVars, variantVars, idLog, blockVars, deck>>

\* the dict _prompt_new_diary_entry builds: diary[today]["sentences"] is set
\* to a new dict for every sentence typed, so it holds the last one alone,
\* under its number
PromptedDiary(inp) ==
    IF inp = << >> THEN << >>
    ELSE <<[key |-> DateKey(Today),
            sentences |-> <<[no |-> Len(inp) - 1,
                             e |-> Ent(inp[Len(inp)].primary, inp[Len(inp)].trial,
                                       << >>, << >>)]>>,
            title |-> None]>>

\* the answers of openai_create_day_title to n calls
TitleResps(n) == [1..n -> TitleResponses]

\* the number of title calls get_all_days_title makes for a dict
NCalls(dict, new, text) == Len(get_all_days_title(dict, new, text, << >>).log)

\* prompt_new_diary_entry: with a new diary the entries are written at once
\* and None is returned, else the dict is kept for diary_complete_translations
PromptNewDiaryEntry ==
    /\ pc = "constructed"
    /\ \E inp \in PromptInputs : \E diary \in {PromptedDiary(inp)} :
          typed' = inp /\
          IF diary # << >> /\ new_diary
          THEN \E tresp \in TitleResps(NCalls(diary, new_diary, all_diary_text)) :
               \E w \in {write_diary(diary, new_diary, all_diary_text, tresp, GenText)} :
                  /\ diary_new_entries_day' = << >>
                  /\ titleCalls' = titleCalls \o w.log
                  /\ written' = Append(written, [dict |-> diary, titles |-> w.titles, raised |-> w.raised])
                  /\ inPlace' = (inPlace \/ (overwrite /\ w.opened))
                  /\ IF overwrite
                     THEN diaryFile' = w.text /\ outFile' = outFile
                     ELSE outFile' = w.text /\ diaryFile' = diaryFile
          ELSE /\ diary_new_entries_day' = diary
               /\ UNCHANGED <<titleCalls, written, diaryFile, outFile, inPlace>>
    /\ pc' = "prompted"
    /\ UNCHANGED <<run, overwrite, auto, diaryExists, new_diary, all_diary_text,
                   diary_dict, cursor, parsed, startFile, trCalls, prev, backup>>
    /\ UNCHANGED <<tprsVars, audioVars, variantVars, idLog, blockVars, deck>>

\* the (day, sentence) places of a dict in the order the loops visit them
Places(dict) ==
    LET F[i \in 0..Len(dict)] ==
            IF i = 0 THEN << >>
            ELSE F[i - 1] \o [j \in 1..Len(dict[i].sentences) |-> <<i, j>>]
    IN  F[Len(dict)]

EntryAt(dict, pl) == dict[pl[1]].sentences[pl[2]].e

\* a faulty variant of TodoFrom: every entry is taken for missing
TodoFrom_All(dict, k) == k..Len(Places(dict))

\* the places from the k-th on whose entry has study_language_sentence == ""
TodoFrom(dict, k) ==
    { n \in k..Len(Places(dict)) : EntryAt(dict, Places(dict)[n]).study = << >> }

\* markdown_diary_to_dict up to its call of get_all_days_title: the text
\* read, the header dates and the dict of the days that hold an entry
ParseBlocks(fileText) ==
    LET text == ReadMarkdown(fileText)
        dates == extract_dates_from_md(fileText)
    IN  [text |-> text, dates |-> dates, dict |-> ParseDays(dates, text, << >>)]

\* markdown_diary_to_dict from there (p is what ParseBlocks gave): the dict
\* with the titles, the log of the title calls, and raised when a header date
\* has no key (diary_dict[date_diary]["title"] = titles_dict[date_diary])
markdown_diary_to_dict(p, new, tresp) ==
    LET t == get_all_days_title(p.dict, new, p.text, tresp)
    IN  [log |-> t.log,
         raised |-> t.raised
                    \/ \E n \in 1..Len(p.dates) : ~HasKey(p.dict, DtKey(p.dates[n])),
         dict |-> [i \in 1..Len(p.dict) |-> [p.dict[i] EXCEPT !.title = t.titles[i]]]]

\* diary_complete_translations up to its loop: parse, then merge what the
\* user typed
CompleteParse ==
    /\ pc = "prompted"
    /\ \E p \in {ParseBlocks(diaryFile)} :
       \E tresp \in TitleResps(NCalls(p.dict, new_diary, p.text)) :
       \E m \in {markdown_diary_to_dict(p, new_diary, tresp)} :
           /\ all_diary_text' = p.text
           /\ titleCalls' = titleCalls \o m.log
           /\ IF m.raised
              THEN /\ pc' = "crashed"
                   /\ UNCHANGED <<diary_dict, parsed>>
              ELSE /\ pc' = "translating"
                   /\ parsed' = m.dict
                   /\ diary_dict' = DictMerge(diary_new_entries_day, m.dict)
    /\ cursor' = 1
    /\ UNCHANGED <<run, overwrite, auto, diaryExists, diaryFile, outFile, new_diary,
                   diary_new_entries_day, typed, startFile, trCalls, written, prev>>
    /\ UNCHANGED <<tprsVars, audioVars, variantVars, idLog, blockVars, deck>>
    /\ UNCHANGED bakVars

\* a faulty variant of TranslateResult: the trial translation of the response
\* is kept
TranslateResult_RespTrial(req, resp) ==
    [primary |-> IF resp.echo THEN req.primary ELSE FixedPrimary,
     trial |-> resp.trial,
     study |-> resp.study,
     tips |-> resp.tips,
     hasStudy |-> resp.kind = "ok"]

\* what openai_translate_sentence returns for sentence_dict: the object of
\* the response with its trial translation set to the one of sentence_dict
TranslateResult(req, resp) ==
    [primary |-> IF resp.echo THEN req.primary ELSE FixedPrimary,
     trial |-> req.trial,
     study |-> resp.study,
     tips |-> resp.tips,
     hasStudy |-> resp.kind = "ok"]

\* a faulty variant of StoreResult: the result goes to the first slot of the day
StoreResult_FirstSlot(dict, pl, res) ==
    [dict EXCEPT ![pl[1]].sentences[1].e = res]

\* diary_dict[date_diary]["sentences"][sentence_no] = res
StoreResult(dict, pl, res) ==
    [dict EXCEPT ![pl[1]].sentences[pl[2]].e = res]

\* a faulty variant of LoopKeepsFiles: the dict is written to the file at
\* markdown_script_generated_diary_path after every translation
LoopKeepsFiles_Flush ==
    \E text \in { DaysText(diary_dict', [i \in 1..Len(diary_dict') |-> diary_dict'[i].title]) } :
       IF overwrite
       THEN diaryFile' = text /\ outFile' = outFile
       ELSE outFile' = text /\ diaryFile' = diaryFile

\* the loop of diary_complete_translations opens no file: write_diary is
\* called after it
LoopKeepsFiles ==
    UNCHANGED <<diaryFile, outFile>>

\* one turn of the loop that calls openai_translate_sentence: the next entry
\* whose study_language_sentence is ""
Translate ==
    /\ pc = "translating"
    /\ auto
    /\ \E todo \in {TodoFrom(diary_dict, cursor)} :
       /\ todo # {}
       /\ \E n \in {Min(todo)} : \E pl \in {Places(diary_dict)[n]} :
          \E req \in {EntryAt(diary_dict, pl)} : \E resp \in TranslateResponses :
           /\ trCalls' = Append(trCalls, [place |-> pl, req |-> req, resp |-> resp])
           /\ cursor' = n + 1
           /\ IF resp.kind = "raise"
              THEN pc' = "crashed" /\ diary_dict' = diary_dict
              ELSE /\ pc' = pc
                   /\ diary_dict' = StoreResult(diary_dict, pl, TranslateResult(req, resp))
    /\ LoopKeepsFiles
    /\ UNCHANGED <<run, overwrite, auto, diaryExists, new_diary,
                   diary_new_entries_day, typed, all_diary_text, parsed, startFile,
                   titleCalls, written, prev>>
    /\ UNCHANGED <<tprsVars, audioVars, variantVars, idLog, blockVars, deck>>
    /\ UNCHANGED bakVars

\* the end of diary_complete_translations: write_diary(diary_dict)
CompleteWrite ==
    /\ pc = "translating"
    /\ ~auto \/ TodoFrom(diary_dict, cursor) = {}
    /\ \E tresp \in TitleResps(NCalls(diary_dict, new_diary, all_diary_text)) :
       \E w \in {write_diary(diary_dict, new_diary, all_diary_text, tresp, GenText)} :
           /\ titleCalls' = titleCalls \o w.log
           /\ written' = Append(written, [dict |-> diary_dict, titles |-> w.titles, raised |-> w.raised])
           /\ inPlace' = (inPlace \/ (overwrite /\ w.opened))
           /\ IF overwrite
              THEN diaryFile' = w.text /\ outFile' = outFile
              ELSE outFile' = w.text /\ diaryFile' = diaryFile
           /\ pc' = IF w.raised THEN "crashed" ELSE "done"
    /\ UNCHANGED <<run, overwrite, auto, diaryExists, new_diary,
                   diary_new_entries_day, typed, all_diary_text, diary_dict, cursor,
                   parsed, startFile, trCalls, prev, backup>>
    /\ UNCHANGED <<tprsVars, audioVars, variantVars, idLog, blockVars, deck>>

\* the program is started again on the files the last run left
NextRun ==
    /\ pc \in {"done", "crashed", "edited"}
    /\ run < MaxRuns
    /\ run' = run + 1
    /\ pc' = "start"
    /\ new_diary' = FALSE
    /\ diary_new_entries_day' = << >>
    /\ typed' = << >>
    /\ all_diary_text' = << >>
    /\ diary_dict' = << >>
    /\ cursor' = 1
    /\ parsed' = << >>
    /\ startFile' = diaryFile
    /\ trCalls' = << >>
    /\ titleCalls' = << >>
    /\ written' = << >>
    /\ prev' = [done |-> pc = "done",
                out |-> GenText,
                w |-> IF written = << >> THEN << >> ELSE <<written[Len(written)]>>,
                clean |-> /\ trCalls = << >> /\ titleCalls = << >>
                          /\ diary_new_entries_day = << >> /\ Len(written) = 1]
    /\ backup' = None
    /\ inPlace' = FALSE
    /\ deck' = None
    /\ UNCHANGED <<overwrite, auto, diaryExists, diaryFile, outFile>>
    /\ UNCHANGED <<tprsVars, audioVars, variantVars, idLog, blockVars>>

Next ==
    \/ DiaryHandlerInit
    \/ PromptNewDiaryEntry
    \/ CompleteParse
    \/ Translate
    \/ CompleteWrite
    \/ NextRun

Spec == Init /\ [][Next]_vars

-----------------------------------------------------------------------------
(* The same run on diaries of other shapes than the template: a date that  *)
(* has two headers, a header without an entry under it, and an entry block *)
(* without its answer line                                                 *)

\* an entry block written by hand without the line of the answer marker
NoAnswerText(e) == BulletText(e) \o TrialText(e) \o TipsText(e)

D_repeat ==
    SrcText(<<SrcDay("D1", H_t, <<E_done1>>),
              SrcDay("D2", H_none, <<E_done3>>),
              SrcDay("D1", H_none, <<E_done2>>)>>)

D_empty ==
    SrcText(<<SrcDay("D2", H_t, <<E_done1>>), SrcDay("D1", H_u, << >>)>>)

D_noanswer ==
    <<"#", " ", "y", NL, NL, "#", "#", " ", "D1", NL>>
    \o NoAnswerText(E_tried) \o EntryText(E_done1) \o EntryText(E_done3)

D_plain ==
    SrcText(<<SrcDay("D2", H_t, <<E_done1, E_done2>>),
              SrcDay("D1", H_none, <<E_todo, E_tried>>)>>)

ShapeDiaries == { D_repeat, D_empty, D_noanswer, D_plain }

InitShapes ==
    /\ pc = "start"
    /\ run = 1
    /\ overwrite \in BOOLEAN
    /\ auto \in BOOLEAN
    /\ diaryExists = TRUE
    /\ diaryFile \in ShapeDiaries
    /\ outFile = << >>
    /\ new_diary = FALSE
    /\ diary_new_entries_day = << >>
    /\ typed = << >>
    /\ all_diary_text = << >>
    /\ diary_dict = << >>
    /\ cursor = 1
    /\ parsed = << >>
    /\ startFile = diaryFile
    /\ trCalls = << >>
    /\ titleCalls = << >>
    /\ written = << >>
    /\ prev = NoPrev
    /\ TprsIdle
    /\ backup = None
    /\ inPlace = FALSE
    /\ BlockIdle
    /\ deck = None

SpecShapes == InitShapes /\ [][Next]_vars

-----------------------------------------------------------------------------
(* The web application (webapp.py): the request POST / of edit_diary, made *)
(* between the runs of the pipeline                                        *)

\* request.form["content"]: what the user submits as the diary
EditContents ==
    { SrcText(<<SrcDay("D1", H_t, <<E_done1>>)>>),
      SrcText(<<SrcDay("D2", H_none, <<E_todo>>)>>) }

\* edit_diary with method POST: DiaryHandler(config_path) is constructed
\* (validate_arguments, setup_output_diary_markdown), then the submitted
\* content is written to config["markdown_diary_path"]
EditDiary ==
    /\ pc = "start"
    /\ new_diary' = ~diaryExists
    /\ diaryExists' = TRUE
    /\ startFile' = (IF diaryExists THEN diaryFile ELSE << >>)
    /\ \E content \in EditContents : \E copied \in CopyOutcomes :
          /\ backup' = (IF copied THEN Some(startFile') ELSE None)
          /\ IF overwrite /\ ~copied
             THEN /\ diaryFile' = startFile'
                  /\ inPlace' = inPlace
                  /\ pc' = "crashed"
             ELSE /\ diaryFile' = content
                  /\ inPlace' = TRUE
                  /\ pc' = "edited"
    /\ UNCHANGED <<run, overwrite, auto, outFile, diary_new_entries_day, typed,
                   all_diary_text, diary_dict, cursor, parsed, trCalls,
                   titleCalls, written, prev>>
    /\ UNCHANGED <<tprsVars, audioVars, variantVars, idLog, blockVars, deck>>

NextWeb ==
    \/ Next
    \/ EditDiary

SpecWeb == Init /\ [][NextWeb]_vars

-----------------------------------------------------------------------------
(* The deck: convert_diary_entries_to_ankideck, the last call of a run     *)
(* (diary.py 2499-2502).  With create_anki_deck false the function returns *)
(* at once and the run ends without this step.                             *)

\* create_note: no note for a study sentence that is empty without its "**";
\* the fields of the note (without the sound) otherwise
create_note(primary, study, tips, d, i) ==
    IF Strip(RemoveStarStar(study)) = << >> THEN None
    ELSE Some([primary |-> Strip(Strip(RemoveStarStar(primary))),
               study |-> Strip(RemoveStarStar(study)),
               tips |-> tips,
               d |-> d,
               no |-> i])

\* process_day_block_anki: the notes of one day, a note for every sentence
\* whose study_language_sentence is not empty
process_day_block_anki(day) ==
    LET F[j \in 0..Len(day.sentences)] ==
            IF j = 0 THEN << >>
            ELSE LET e == day.sentences[j].e
                     note == create_note(e.primary, e.study, e.tips, day.key.d,
                                         day.sentences[j].no)
                 IN  IF e.study # << >> /\ ~note.isNone
                     THEN Append(F[j - 1], note.val)
                     ELSE F[j - 1]
    IN  F[Len(day.sentences)]

\* the loop of convert_diary_entries_to_ankideck over diary_dict.items()
RECURSIVE AllNotes(_)
AllNotes(dict) ==
    IF dict = << >> THEN << >>
    ELSE process_day_block_anki(Head(dict)) \o AllNotes(Tail(dict))

\* convert_diary_entries_to_ankideck with create_anki_deck true:
\* validate_arguments sets new_diary again, markdown_diary_to_dict reads the
\* file at markdown_diary_path, and the notes of its days go to the deck
ConvertDiaryEntriesToAnkideck ==
    /\ pc = "done"
    /\ deck.isNone
    /\ \E p \in {ParseBlocks(diaryFile)} :
       \E tresp \in TitleResps(NCalls(p.dict, ~diaryExists, p.text)) :
       \E m \in {markdown_diary_to_dict(p, ~diaryExists, tresp)} :
           /\ new_diary' = ~diaryExists
           /\ all_diary_text' = p.text
           /\ titleCalls' = titleCalls \o m.log
           /\ deck' = Some([raised |-> m.raised,
                            notes |-> IF m.raised THEN << >> ELSE AllNotes(m.dict)])
    /\ UNCHANGED <<pc, run, overwrite, auto, diaryExists, diaryFile, outFile,
                   diary_new_entries_day, typed, diary_dict, cursor, parsed, startFile,
                   trCalls, written, prev, backup, inPlace>>
    /\ UNCHANGED <<tprsVars, audioVars, variantVars, idLog, blockVars>>

NextAnki ==
    \/ Next
    \/ ConvertDiaryEntriesToAnkideck

SpecAnki == Init /\ [][NextAnki]_vars

-----------------------------------------------------------------------------
(* The question/answer artifact of TprsCreation (the base variant).  The   *)
(* dict read from it is a sequence of days [key, units]; units is the dict *)
(* of one day, a sequence of [sentence, qa]; qa is the sequence of the     *)
(* [question, answer] pairs of the sentence.                               *)

\* where r"^##\s+" matches with re.MULTILINE
SplitStarts(s) ==
    { i \in 1..(Len(s) - 2) :
        /\ s[i] = "#" /\ s[i + 1] = "#" /\ s[i + 2] \in WS
        /\ (i = 1 \/ s[i - 1] = NL) }

RECURSIVE SplitDaysFrom(_, _, _)
SplitDaysFrom(s, starts, i) ==
    LET later == { j \in starts : j >= i }
    IN  IF later = {} THEN << >>
        ELSE LET st == Min(later)
                 after == { j \in starts : j > st }
                 nx == IF after = {} THEN Len(s) + 1 ELSE Min(after)
             IN  <<Slice(s, SkipWS(s, st + 2), nx - 1)>> \o SplitDaysFrom(s, starts, st + 1)

\* re.split(r"^##\s+", content, flags=re.MULTILINE)
SplitDays(s) ==
    LET starts == SplitStarts(s)
        first == IF starts = {} THEN Len(s) ELSE Min(starts) - 1
    IN  <<Slice(s, 1, first)>> \o SplitDaysFrom(s, starts, 1)

\* the date the three patterns of read_tprs_day_block find at the head of a
\* block ("YYYY-MM-DD" is no date of this model), or NoDate
NoDate == "none"

BlockDate(block) ==
    IF block # << >> /\ block[1] \in Dates THEN block[1]
    ELSE IF Len(block) >= 4 /\ SubSeq(block, 1, 3) = <<"#", "#", " ">> /\ block[4] \in Dates
    THEN block[4]
    ELSE NoDate

HasUnit(units, sentence) == \E n \in 1..Len(units) : units[n].sentence = sentence

UnitOf(units, sentence) == units[CHOOSE n \in 1..Len(units) : units[n].sentence = sentence]

\* units[sentence] = qa
UnitSet(units, sentence, qa) ==
    IF HasUnit(units, sentence)
    THEN [n \in 1..Len(units) |->
             IF units[n].sentence = sentence THEN [units[n] EXCEPT !.qa = qa] ELSE units[n]]
    ELSE Append(units, [sentence |-> sentence, qa |-> qa])

\* result[current_setning].append((current_question, answer))
AddPair(result, sentence, pair) ==
    UnitSet(result, sentence,
            IF HasUnit(result, sentence) THEN Append(UnitOf(result, sentence).qa, pair)
            ELSE <<pair>>)

\* the loop of read_tprs_day_block over the lines; a question that is None
\* and one that is "" are the same to the tests of the loop
RECURSIVE TprsLines(_, _)
TprsLines(lines, acc) ==
    IF lines = << >> THEN acc
    ELSE LET line == Strip(Head(lines))
         IN  Only({ TprsLines(Tail(lines), a) : a \in {
                IF line = << >> THEN acc
                ELSE IF line[1] = "SENT"
                THEN [acc EXCEPT !.setning = Strip(Tail(line))]
                ELSE IF line[1] = "QUES" /\ acc.setning # << >>
                THEN [acc EXCEPT !.question = Strip(Tail(line))]
                ELSE IF line[1] = "ANSW" /\ acc.setning # << >> /\ acc.question # << >>
                THEN [setning |-> acc.setning,
                      question |-> << >>,
                      result |-> AddPair(acc.result, acc.setning,
                                         [question |-> acc.question,
                                          answer |-> Strip(Tail(line))])]
                ELSE acc } })

read_tprs_day_block(day_block) ==
    [date |-> BlockDate(day_block),
     result |-> TprsLines(SplitLines(day_block),
                          [setning |-> << >>, question |-> << >>, result |-> << >>]).result]

\* the loop of read_tprs_to_dict over the blocks; a block without a date
\* makes datetime.strptime(None, ...) raise
RECURSIVE ReadDays(_, _)
ReadDays(blocks, acc) ==
    IF blocks = << >> \/ acc.raised THEN acc
    ELSE LET r == read_tprs_day_block(Head(blocks))
         IN  Only({ ReadDays(Tail(blocks), a) : a \in {
                IF Strip(Head(blocks)) = << >> THEN acc
                ELSE IF r.date = NoDate THEN [acc EXCEPT !.raised = TRUE]
                ELSE [acc EXCEPT !.dict = DictSet(@, [key |-> DtKey(r.date),
                                                       units |-> r.result])] } })

\* read_tprs_to_dict on the file it has chosen
read_tprs_to_dict(fileText) ==
    ReadDays(SplitDays(ReadMarkdown(fileText)), [raised |-> FALSE, dict |-> << >>])

DictGet(dict, k) == dict[CHOOSE i \in 1..Len(dict) : dict[i].key = k]

\* get_all_tprs_titles: the titles of the headers of the artifact
RECURSIVE TitlesOfBlocks(_, _)
TitlesOfBlocks(blocks, acc) ==
    IF blocks = << >> THEN acc
    ELSE LET b == Head(blocks)
             ln == SplitLines(b)[1]
         IN  Only({ TitlesOfBlocks(Tail(blocks), a) : a \in {
                IF Strip(b) # << >> /\ b[1] \in Dates
                THEN DictSet(acc, [key |-> DtKey(b[1]),
                                   title |-> Some(Strip(RemoveTok(Tail(ln), ":")))])
                ELSE acc } })

get_all_tprs_titles(file) ==
    IF file.isNone THEN << >>
    ELSE TitlesOfBlocks(SplitDays(ReadMarkdown(file.val)), << >>)

\* the titles_dict get_all_days_title leaves behind for a parsed diary
TitlesOfDiary(dict) == [i \in 1..Len(dict) |-> [key |-> dict[i].key, title |-> dict[i].title]]

\* a faulty variant of SentenceMissing: every sentence is taken for missing
SentenceMissing_Always(td, k, sentence) == TRUE

\* sentence not in tprs_dict[date_diary].keys(), where a date the artifact
\* lacks has got an empty dict
SentenceMissing(td, k, sentence) ==
    ~HasKey(td, k) \/ ~HasUnit(DictGet(td, k).units, sentence)

\* the (date, study sentence) pairs of a diary dict in the order of the loops
DiaryPairs(dict) ==
    [n \in 1..Len(Places(dict)) |->
        [key |-> dict[Places(dict)[n][1]].key,
         sentence |-> EntryAt(dict, Places(dict)[n]).study]]

\* the calls of openai_tprs check_missing_sentences_from_existing_tprs makes
CheckRequests(td, dict) ==
    SelectSeq(DiaryPairs(dict), LAMBDA r : SentenceMissing(td, r.key, r.sentence))

\* every sentence of the diary: the calls of _generate_tprs_md_file
FirstRequests(dict) == DiaryPairs(dict)

\* new_tprs_dict[date][sentence] = qa
PutUnit(dict, k, sentence, qa) ==
    IF HasKey(dict, k)
    THEN [i \in 1..Len(dict) |->
             IF dict[i].key = k THEN [dict[i] EXCEPT !.units = UnitSet(@, sentence, qa)]
             ELSE dict[i]]
    ELSE Append(dict, [key |-> k, units |-> <<[sentence |-> sentence, qa |-> qa]>>])

\* new_tprs_dict of check_missing_sentences_from_existing_tprs: the loop over
\* the pairs of the diary from the n-th on; got holds the answers of
\* openai_tprs in the order of the calls
RECURSIVE BuildNew(_, _, _, _, _, _)
BuildNew(td, pairs, n, got, used, acc) ==
    IF n > Len(pairs) THEN acc
    ELSE LET r == pairs[n]
             miss == SentenceMissing(td, r.key, r.sentence)
         IN  Only({ BuildNew(td, pairs, n + 1, got, IF miss THEN used + 1 ELSE used, a) :
                    a \in { PutUnit(acc, r.key, r.sentence,
                                    IF miss THEN got[used + 1]
                                    ELSE UnitOf(DictGet(td, r.key).units, r.sentence).qa) } })

\* output_dict of _generate_tprs_md_file
RECURSIVE BuildFirst(_, _, _, _)
BuildFirst(pairs, n, got, acc) ==
    IF n > Len(pairs) THEN acc
    ELSE Only({ BuildFirst(pairs, n + 1, got, a) :
                  a \in { PutUnit(acc, pairs[n].key, pairs[n].sentence, got[n]) } })

\* f"{title}": None is written as the word None
TitleWord(t) == IF t.isNone THEN <<"None">> ELSE t.val

TprsHeaderText(d, title) == <<"#", "#", " ", d, ":", " ">> \o TitleWord(title) \o <<NL>>

QaText(qa) ==
    Concat([k \in 1..Len(qa) |->
               <<"QUES", " ">> \o Strip(qa[k].question) \o <<NL>>
               \o <<"ANSW", " ">> \o Strip(qa[k].answer) \o <<NL>>])

UnitText(u) == <<"SENT", " ">> \o Strip(u.sentence) \o <<NL>> \o QaText(u.qa) \o <<NL>>

UnitsText(units) == Concat([n \in 1..Len(units) |-> UnitText(units[n])])

\* the loop of _write_tprs_dict_to_md_generic over the days; a date without
\* a title in titles_dict raises and leaves what was written before it
RECURSIVE TprsDaysText(_, _)
TprsDaysText(dict, titles) ==
    IF dict = << >> \/ ~HasKey(titles, Head(dict).key) THEN << >>
    ELSE TprsHeaderText(Head(dict).key.d, DictGet(titles, Head(dict).key).title)
         \o UnitsText(Head(dict).units)
         \o TprsDaysText(Tail(dict), titles)

write_tprs_dict_to_md(dict, titles) ==
    [raised |-> \E i \in 1..Len(dict) : ~HasKey(titles, dict[i].key),
     text |-> TprsDaysText(dict, titles)]

\* get_sentences_from_diary: None when no entry of the block has an answer
get_sentences_from_diary(day_block) ==
    Only({ IF ~(\E n \in 1..Len(es) : es[n].study # << >>) THEN None
           ELSE Some([n \in 1..Len(es) |-> Strip(es[n].study)]) :
              es \in { FindEntries(day_block) } })

AllDatesSorted == <<"D1", "D2", "D3">>

InSeq(seq, x) == \E n \in 1..Len(seq) : seq[n] = x

\* sorted(set(dates_diary) - set(dates_tprs))
MissingDates(dates_diary, dates_tprs) ==
    SelectSeq(AllDatesSorted, LAMBDA d : InSeq(dates_diary, d) /\ ~InSeq(dates_tprs, d))

\* the sentences create_tprs_block_day is called with for a missing date
\* (<< >> when it is not called)
SentencesFor(diaryText, d) ==
    Only({ IF r.isNone THEN << >> ELSE r.val :
              r \in { get_sentences_from_diary(get_text_for_date(diaryText, d)) } })

\* the calls of openai_tprs _add_missing_tprs_generic makes for the base
\* variant: the sentences of the missing dates
RECURSIVE AddRequests(_, _)
AddRequests(diaryText, missing) ==
    IF missing = << >> THEN << >>
    ELSE Only({ [n \in 1..Len(ss) |-> [key |-> DtKey(Head(missing)), sentence |-> ss[n]]] :
                  ss \in { SentencesFor(diaryText, Head(missing)) } })
         \o AddRequests(diaryText, Tail(missing))

\* create_tprs_block_day for the sentences ss, got[n] answering the n-th
create_tprs_block_day(ss, got) ==
    Concat([n \in 1..Len(ss) |->
               <<"SENT", " ">> \o Strip(ss[n]) \o <<NL>> \o QaText(got[n]) \o <<NL>>])

\* tprs_dict of _add_missing_tprs_generic: the text of the block of every
\* date of the artifact, then the new block of every missing date
RECURSIVE NewBlocks(_, _, _, _)
NewBlocks(diaryText, missing, got, acc) ==
    IF missing = << >> THEN acc
    ELSE Only({ NewBlocks(diaryText, Tail(missing), Slice(got, Len(ss) + 1, Len(got)),
                          IF ss = << >> THEN acc
                          ELSE DictSet(acc, [key |-> DtKey(Head(missing)),
                                             text |-> create_tprs_block_day(ss, got)])) :
                  ss \in { SentencesFor(diaryText, Head(missing)) } })

RECURSIVE OldBlocks(_, _, _)
OldBlocks(tprsText, dates_tprs, acc) ==
    IF dates_tprs = << >> THEN acc
    ELSE Only({ OldBlocks(tprsText, Tail(dates_tprs), a) :
                  a \in { DictSet(acc, [key |-> DtKey(Head(dates_tprs)),
                                        text |-> get_text_for_date(tprsText,
                                                                   Head(dates_tprs))]) } })

\* get_all_diary_titles: the titles of the headers of the diary
get_all_diary_titles(diaryText) == TitlesOfBlocks(SplitDays(ReadMarkdown(diaryText)), << >>)

\* titles_dict after "if dt not in self.titles_dict: ... = titles_diary_dict[dt]"
RECURSIVE UpdateTitles(_, _, _)
UpdateTitles(titles, dates_diary, diaryTitles) ==
    IF dates_diary = << >> THEN titles
    ELSE LET k == DtKey(Head(dates_diary))
         IN  Only({ UpdateTitles(t, Tail(dates_diary), diaryTitles) :
                    t \in { IF HasKey(titles, k) \/ ~HasKey(diaryTitles, k) THEN titles
                            ELSE Append(titles, DictGet(diaryTitles, k)) } })

\* the loop that writes the combined file: a block for every date of
\* dates_diary that has one
RECURSIVE AddText(_, _, _)
AddText(dates_diary, blocks, titles) ==
    IF dates_diary = << >> THEN << >>
    ELSE LET k == DtKey(Head(dates_diary))
         IN  (IF HasKey(blocks, k)
              THEN TprsHeaderText(k.d, DictGet(titles, k).title)
                   \o DictGet(blocks, k).text \o <<NL, NL>>
              ELSE << >>)
             \o AddText(Tail(dates_diary), blocks, titles)

\* _add_missing_tprs_generic from the answers of openai_tprs on: the
\* titles_dict it leaves and the text it writes to tprs_all_path
AddWrite(dates_diary, blocks, ts) ==
    [titles |-> ts,
     raised |-> \E n \in 1..Len(dates_diary) :
                   HasKey(blocks, DtKey(dates_diary[n])) /\ ~HasKey(ts, DtKey(dates_diary[n])),
     text |-> AddText(dates_diary, blocks, ts)]

AddBlocks(tprsText, diaryText, dates_tprs, dates_diary, got) ==
    Only({ NewBlocks(ReadMarkdown(diaryText), MissingDates(dates_diary, dates_tprs), got, old) :
              old \in { OldBlocks(ReadMarkdown(tprsText), dates_tprs, << >>) } })

add_missing_tprs(tprsText, diaryText, titles, got) ==
    Only({ Only({ AddWrite(dates_diary, blocks, ts) :
                     blocks \in { AddBlocks(tprsText, diaryText, dates_tprs, dates_diary, got) },
                     ts \in { Only({ UpdateTitles(titles, dates_diary, dt) :
                                        dt \in { get_all_diary_titles(diaryText) } }) } }) :
              dates_tprs \in { extract_dates_from_md(tprsText) },
              dates_diary \in { extract_dates_from_md(diaryText) } })

\* the function add_missing_tprs_enhanced, _future, _present hands to
\* _add_missing_tprs_generic
VariantFn(v) ==
    CASE v = "enhanced" -> "openai_tprs_enhanced"
      [] v = "future" -> "openai_tprs_future"
      [] v = "present" -> "openai_tprs_present"

\* the missing dates up to the first one existing_tprs has no key for
RECURSIVE KnownMissing(_, _)
KnownMissing(existing, missing) ==
    IF missing = << >> \/ ~HasKey(existing, DtKey(Head(missing))) THEN << >>
    ELSE <<Head(missing)>> \o KnownMissing(existing, Tail(missing))

\* existing_tprs[dt] raises for a missing date
VariantRaises(existing, missing) ==
    \E n \in 1..Len(missing) : ~HasKey(existing, DtKey(missing[n]))

\* the calls of the variant generator: every sentence of existing_tprs[dt]
\* for every missing date dt
RECURSIVE VariantRequests(_, _)
VariantRequests(existing, missing) ==
    IF missing = << >> THEN << >>
    ELSE Only({ [n \in 1..Len(us) |-> [key |-> DtKey(Head(missing)),
                                        sentence |-> us[n].sentence, qa |-> us[n].qa]] :
                  us \in { DictGet(existing, DtKey(Head(missing))).units } })
         \o VariantRequests(existing, Tail(missing))

\* qa_dict_day.update(qa_dict) for every answer of the generator
RECURSIVE UpdateUnits(_, _)
UpdateUnits(acc, resp) ==
    IF resp = << >> THEN acc
    ELSE UpdateUnits(UnitSet(acc, Head(resp).sentence, Head(resp).qa), Tail(resp))

RECURSIVE QaDictDay(_, _)
QaDictDay(got, acc) ==
    IF got = << >> THEN acc ELSE QaDictDay(Tail(got), UpdateUnits(acc, Head(got)))

\* create_tprs_other_version_block_day
create_tprs_other_version_block_day(qa_tprs_day_dict) == UnitsText(qa_tprs_day_dict)

\* tprs_dict of _add_missing_tprs_generic for a variant: the new block of
\* every missing date, from the answers of the generator
RECURSIVE VariantNewBlocks(_, _, _, _)
VariantNewBlocks(existing, missing, got, acc) ==
    IF missing = << >> THEN acc
    ELSE Only({ VariantNewBlocks(existing, Tail(missing), Slice(got, n + 1, Len(got)),
                   DictSet(acc, [key |-> DtKey(Head(missing)),
                                 text |-> create_tprs_other_version_block_day(
                                             QaDictDay(Slice(got, 1, n), << >>))])) :
                  n \in { Len(DictGet(existing, DtKey(Head(missing))).units) } })

\* _add_missing_tprs_generic for a variant from the answers of the generator
\* on: the titles_dict it leaves and the text it writes
add_missing_tprs_variant(variantText, existing, diaryText, titles, got) ==
    Only({ Only({ AddWrite(dates_diary, blocks, ts) :
                     blocks \in { Only({ VariantNewBlocks(existing,
                                                          MissingDates(dates_diary, dates_tprs),
                                                          got, old) :
                                            old \in { OldBlocks(ReadMarkdown(variantText),
                                                                dates_tprs, << >>) } }) },
                     ts \in { Only({ UpdateTitles(titles, dates_diary, dt) :
                                        dt \in { get_all_diary_titles(diaryText) } }) } }) :
              dates_tprs \in { extract_dates_from_md(variantText) },
              dates_diary \in { extract_dates_from_md(diaryText) } })

\* the calls of create_func of _convert_tts_tprs_entries in the order of the
\* file: the blocks that are not blank and parse to a result that is not empty
RECURSIVE AudioDaysOf(_)
AudioDaysOf(blocks) ==
    IF blocks = << >> THEN << >>
    ELSE Only({ (IF Strip(Head(blocks)) # << >> /\ r.date # NoDate /\ r.result # << >>
                 THEN <<[d |-> r.date, units |-> r.result]>> ELSE << >>)
                \o AudioDaysOf(Tail(blocks)) :
                   r \in { read_tprs_day_block(Head(blocks)) } })

AudioDays(fileText) == AudioDaysOf(SplitDays(ReadMarkdown(fileText)))

\* os.path.exists(tprs_audio_lesson_filepath): the name of the file holds the
\* date and the title
AudioExists(files, d, title) ==
    \E n \in 1..Len(files) : files[n].d = d /\ files[n].title = title

\* combined.export(tprs_audio_lesson_filepath): the file is made or replaced
AudioExport(files, d, title, units) ==
    IF AudioExists(files, d, title)
    THEN [n \in 1..Len(files) |->
             IF files[n].d = d /\ files[n].title = title
             THEN [files[n] EXCEPT !.units = units] ELSE files[n]]
    ELSE Append(files, [d |-> d, title |-> title, units |-> units])

\* the "already processed" test of _create_tprs_audio_generic
AudioSkipped(files, d, title, flag) == AudioExists(files, d, title) /\ ~flag

\* the audio lessons a conversion of the artifact has left
RECURSIVE RenderAll(_, _, _)
RenderAll(days, titles, acc) ==
    IF days = << >> THEN acc
    ELSE RenderAll(Tail(days), titles,
                   AudioExport(acc, Head(days).d,
                               TitleWord(DictGet(titles, DtKey(Head(days).d)).title),
                               Head(days).units))

-----------------------------------------------------------------------------
(* Inputs of TprsCreation: the diary the run before left, the artifact     *)
(* written by an earlier run, and what openai_tprs answers                 *)

QA(q, a) == [question |-> q, answer |-> a]

TUnit(sentence, qa) == [sentence |-> sentence, qa |-> qa]

TDay(d, title, units) == [d |-> d, title |-> title, units |-> units]

\* an artifact as _write_tprs_dict_to_md_generic writes it
ArtText(days) ==
    Concat([i \in 1..Len(days) |->
               TprsHeaderText(days[i].d, Some(days[i].title)) \o UnitsText(days[i].units)])

U_d == TUnit(<<"d">>, <<QA(<<"a">>, <<"b">>)>>)
U_hi == TUnit(<<"h", "-", "i">>, <<QA(<<"c">>, <<"e">>)>>)
U_m == TUnit(<<"m">>, <<QA(<<"f">>, <<"g">>), QA(<<"j">>, << >>)>>)

TprsDiaries ==
    { SrcText(<<SrcDay("D1", H_t, <<E_done1, E_done3>>)>>),
      SrcText(<<SrcDay("D2", H_t, <<E_done1>>),
                SrcDay("D1", H_u, <<E_done2, E_done3>>)>>),
      SrcText(<<SrcDay("D1", H_none, <<E_done1, E_todo>>)>>),
      SrcText(<<SrcDay("D1", H_t, <<E_done1>>)>>) }

TprsArtifacts ==
    { Some(ArtText(<<TDay("D1", <<"t">>, <<U_d, U_m>>)>>)),
      Some(ArtText(<<TDay("D2", <<"t">>, <<U_d>>),
                     TDay("D1", <<"u", " ", "v">>, <<U_hi>>)>>)),
      Some(ArtText(<<TDay("D1", <<"t">>, <<U_d>>)>>)),
      None }

\* the audio lessons found at the start: none, or those of the artifact
InitialAudio(file) ==
    IF file.isNone THEN { << >> }
    ELSE { << >>, RenderAll(AudioDays(file.val), get_all_tprs_titles(file), << >>) }

U_r == TUnit(<<"r">>, <<QA(<<"s">>, <<"t">>)>>)

\* the variant artifacts found at the start
VariantArtifacts ==
    { Some(ArtText(<<TDay("D1", <<"t">>, <<U_r>>)>>)),
      Some(ArtText(<<TDay("D2", <<"t">>, <<U_r>>)>>)) }

\* what openai_tprs_enhanced, _future and _present may return: the revised
\* sentence with its question/answer pairs
VariantResponses ==
    { <<TUnit(<<"n">>, <<QA(<<"u">>, <<"v">>)>>)>>,
      <<TUnit(<<"o", " ">>, <<QA(<<"w">>, <<"x">>), QA(<<"y">>, <<"z">>)>>)>> }

\* what openai_tprs may return
TprsResponses ==
    { <<QA(<<"u">>, <<"v">>)>>,
      <<QA(<<"w">>, <<"x">>), QA(<<"y">>, <<"z">>)>> }

-----------------------------------------------------------------------------
(* The run of TprsCreation in main(): TprsCreation(),                      *)
(* check_missing_sentences_from_existing_tprs(), add_missing_tprs().  The  *)
(* diary run before has written in place, so every path of the diary names *)
(* the one file diaryFile.                                                 *)

\* the file at markdown_script_generated_tprs_all_path
TprsGenFile == IF overwrite_tprs THEN tprsFile ELSE tprsGen

\* the file read_tprs_to_dict reads
TprsSource == IF ~TprsGenFile.isNone THEN TprsGenFile ELSE tprsFile

InitTprs ==
    /\ pc = "t_start"
    /\ run = 1
    /\ overwrite = TRUE
    /\ auto = FALSE
    /\ diaryExists = TRUE
    /\ diaryFile \in TprsDiaries
    /\ outFile = << >>
    /\ new_diary = FALSE
    /\ diary_new_entries_day = << >>
    /\ typed = << >>
    /\ all_diary_text = << >>
    /\ diary_dict = << >>
    /\ cursor = 1
    /\ parsed = << >>
    /\ startFile = diaryFile
    /\ trCalls = << >>
    /\ titleCalls = << >>
    /\ written = << >>
    /\ prev = NoPrev
    /\ overwrite_tprs \in BOOLEAN
    /\ tprsFile \in TprsArtifacts
    /\ tprsGen = None
    /\ titles_dict = << >>
    /\ tprs_dict = << >>
    /\ tq = NoCalls
    /\ tprsCalls = << >>
    /\ tprsSeen = None
    /\ backup = None
    /\ inPlace = FALSE
    /\ audioCfg \in BOOLEAN
    /\ overwrite_tprs_audio = audioCfg
    /\ audio \in InitialAudio(tprsFile)
    /\ audioLog = << >>
    /\ resynced = {}
    /\ variantFile = [v \in Variants |-> Some(ArtText(<<TDay("D1", <<"t">>, <<U_r>>)>>))]
    /\ variantGen = [v \in Variants |-> None]
    /\ vi = 1
    /\ variantCalls = << >>
    /\ variantSeen = None
    /\ idLog = << >>
    /\ BlockIdle
    /\ deck = None

\* what the diary side keeps during the run of TprsCreation
DiaryFrame ==
    UNCHANGED <<run, overwrite, auto, diaryExists, diaryFile, outFile, new_diary,
                diary_new_entries_day, typed, diary_dict, cursor, startFile, trCalls,
                written, prev, overwrite_tprs, backup, inPlace, audioCfg, idLog,
                blockVars, deck>>

\* what the steps on the base artifact keep of the variants
VariantFrame == UNCHANGED variantVars

\* what the steps before the audio conversion keep of the audio
AudioFrame == UNCHANGED <<audio, audioLog>>

\* the write to markdown_script_generated_tprs_all_path
WriteGen(text) ==
    IF overwrite_tprs
    THEN tprsFile' = Some(text) /\ tprsGen' = tprsGen
    ELSE tprsGen' = Some(text) /\ tprsFile' = tprsFile

\* TprsCreation.__init__: without a file at markdown_tprs_path
\* create_first_tprs_md_file parses the diary and asks openai_tprs for every
\* sentence; get_all_tprs_titles reads the titles of the artifact
TprsCreationInit ==
    /\ pc = "t_start"
    /\ IF tprsFile.isNone
       THEN \E p \in {ParseBlocks(diaryFile)} :
            \E tresp \in TitleResps(NCalls(p.dict, FALSE, p.text)) :
            \E m \in {markdown_diary_to_dict(p, FALSE, tresp)} :
                /\ all_diary_text' = p.text
                /\ titleCalls' = titleCalls \o m.log
                /\ IF m.raised
                   THEN /\ pc' = "crashed"
                        /\ UNCHANGED <<parsed, titles_dict, tq>>
                   ELSE /\ pc' = "t_first"
                        /\ parsed' = m.dict
                        /\ titles_dict' = TitlesOfDiary(m.dict)
                        /\ tq' = [op |-> "first", todo |-> FirstRequests(m.dict), got |-> << >>]
       ELSE /\ titles_dict' = get_all_tprs_titles(tprsFile)
            /\ pc' = "t_ready"
            /\ UNCHANGED <<all_diary_text, titleCalls, parsed, tq>>
    /\ overwrite_tprs_audio' = audioCfg
    /\ UNCHANGED <<tprsFile, tprsGen, tprs_dict, tprsCalls, tprsSeen, resynced>>
    /\ AudioFrame
    /\ DiaryFrame
    /\ VariantFrame

\* the call to make is the last one of its day
DayEnds(todo) == Len(todo) = 1 \/ todo[2].key # todo[1].key

\* one call of openai_tprs; _generate_tprs_md_file calls write_fn(output_dict)
\* at the end of every day of the diary
TprsGenerate ==
    /\ pc \in {"t_first", "t_check", "t_add"}
    /\ tq.todo # << >>
    /\ \E resp \in TprsResponses :
          /\ tprsCalls' = Append(tprsCalls, [op |-> tq.op,
                                             key |-> Head(tq.todo).key,
                                             sentence |-> Head(tq.todo).sentence,
                                             resp |-> resp])
          /\ tq' = [tq EXCEPT !.todo = Tail(@), !.got = Append(@, resp)]
          /\ IF tq.op = "first" /\ DayEnds(tq.todo)
             THEN \E w \in {write_tprs_dict_to_md(
                                BuildFirst(SubSeq(FirstRequests(parsed), 1, Len(tq.got) + 1),
                                           1, Append(tq.got, resp), << >>),
                                titles_dict)} :
                     /\ WriteGen(w.text)
                     /\ pc' = IF w.raised THEN "crashed" ELSE pc
             ELSE UNCHANGED <<pc, tprsFile, tprsGen>>
    /\ UNCHANGED <<all_diary_text, titleCalls, parsed,
                   titles_dict, tprs_dict, tprsSeen, overwrite_tprs_audio, resynced>>
    /\ AudioFrame
    /\ DiaryFrame
    /\ VariantFrame

\* the end of create_first_tprs_md_file and of __init__
FirstWrite ==
    /\ pc = "t_first"
    /\ tq.todo = << >>
    /\ pc' = "t_ready"
    /\ UNCHANGED <<tprsFile, tprsGen>>
    /\ titles_dict' = get_all_tprs_titles(tprsFile)
    /\ tq' = NoCalls
    /\ UNCHANGED <<all_diary_text, titleCalls, parsed, tprs_dict, tprsCalls, tprsSeen,
                   overwrite_tprs_audio, resynced>>
    /\ AudioFrame
    /\ DiaryFrame
    /\ VariantFrame

\* check_missing_sentences_from_existing_tprs up to its first call of
\* openai_tprs: the artifact and the diary are read; a missing sentence sets
\* config["overwrite_tprs_audio"] before openai_tprs is called for it
CheckMissingStart ==
    /\ pc = "t_ready"
    /\ tprsSeen' = TprsGenFile
    /\ IF TprsSource.isNone
       THEN /\ pc' = "t_checked"
            /\ UNCHANGED <<all_diary_text, titleCalls, parsed, titles_dict, tprs_dict, tq>>
       ELSE \E r \in {read_tprs_to_dict(TprsSource.val)} :
            \E p \in {ParseBlocks(diaryFile)} :
            \E tresp \in TitleResps(IF r.raised THEN 0 ELSE NCalls(p.dict, FALSE, p.text)) :
            \E m \in {markdown_diary_to_dict(p, FALSE, tresp)} :
                IF r.raised
                THEN /\ pc' = "crashed"
                     /\ UNCHANGED <<all_diary_text, titleCalls, parsed, titles_dict,
                                    tprs_dict, tq>>
                ELSE /\ all_diary_text' = p.text
                     /\ titleCalls' = titleCalls \o m.log
                     /\ IF m.raised
                        THEN /\ pc' = "crashed"
                             /\ UNCHANGED <<parsed, titles_dict, tprs_dict, tq>>
                        ELSE /\ pc' = "t_check"
                             /\ parsed' = m.dict
                             /\ titles_dict' = TitlesOfDiary(m.dict)
                             /\ tprs_dict' = r.dict
                             /\ tq' = [op |-> "check",
                                       todo |-> CheckRequests(r.dict, m.dict),
                                       got |-> << >>]
    /\ overwrite_tprs_audio' = (overwrite_tprs_audio \/ (pc' = "t_check" /\ tq'.todo # << >>))
    /\ UNCHANGED <<tprsFile, tprsGen, tprsCalls, resynced>>
    /\ AudioFrame
    /\ DiaryFrame
    /\ VariantFrame

\* the end of check_missing_sentences_from_existing_tprs:
\* write_tprs_dict_to_md(new_tprs_dict)
CheckMissingWrite ==
    /\ pc = "t_check"
    /\ tq.todo = << >>
    /\ \E w \in {write_tprs_dict_to_md(
                    BuildNew(tprs_dict, DiaryPairs(parsed), 1, tq.got, 0, << >>),
                    titles_dict)} :
          /\ WriteGen(w.text)
          /\ pc' = IF w.raised THEN "crashed" ELSE "t_checked"
          /\ resynced' = (IF w.raised THEN resynced
                          ELSE resynced \cup { [d |-> tprsCalls[n].key.d, run |-> run] :
                                                  n \in 1..Len(tprsCalls) })
    /\ tq' = NoCalls
    /\ UNCHANGED <<all_diary_text, titleCalls, parsed, titles_dict, tprs_dict,
                   tprsCalls, tprsSeen, overwrite_tprs_audio>>
    /\ AudioFrame
    /\ DiaryFrame
    /\ VariantFrame

\* add_missing_tprs up to its first call of openai_tprs; the artifact is read
\* at markdown_tprs_path, which has to exist
AddMissingStart ==
    /\ pc = "t_checked"
    /\ tprsSeen' = TprsGenFile
    /\ IF tprsFile.isNone
       THEN pc' = "crashed" /\ tq' = tq
       ELSE /\ pc' = "t_add"
            /\ tq' = [op |-> "add",
                      todo |-> AddRequests(ReadMarkdown(diaryFile),
                                  MissingDates(extract_dates_from_md(diaryFile),
                                               extract_dates_from_md(tprsFile.val))),
                      got |-> << >>]
    /\ UNCHANGED <<all_diary_text, titleCalls, parsed, tprsFile, tprsGen, titles_dict,
                   tprs_dict, tprsCalls, overwrite_tprs_audio, resynced>>
    /\ AudioFrame
    /\ DiaryFrame
    /\ VariantFrame

\* the end of add_missing_tprs: the combined file is written
AddMissingWrite ==
    /\ pc = "t_add"
    /\ tq.todo = << >>
    /\ \E w \in {add_missing_tprs(tprsFile.val, diaryFile, titles_dict, tq.got)} :
          /\ WriteGen(w.text)
          /\ titles_dict' = w.titles
          /\ pc' = IF w.raised THEN "crashed" ELSE "t_done"
    /\ tq' = NoCalls
    /\ UNCHANGED <<all_diary_text, titleCalls, parsed, tprs_dict, tprsCalls, tprsSeen,
                   overwrite_tprs_audio, resynced>>
    /\ AudioFrame
    /\ DiaryFrame
    /\ VariantFrame

\* convert_tts_tprs_entries up to its first day: the first file that exists
\* of the generated path and markdown_tprs_path is read and split into days
ConvertStart ==
    /\ pc = "t_done"
    /\ IF TprsSource.isNone
       THEN pc' = "crashed" /\ tq' = tq
       ELSE /\ pc' = "t_audio"
            /\ tq' = [op |-> "audio", todo |-> AudioDays(TprsSource.val), got |-> << >>]
    /\ UNCHANGED <<all_diary_text, titleCalls, parsed, tprsFile, tprsGen, titles_dict,
                   tprs_dict, tprsCalls, tprsSeen, overwrite_tprs_audio, resynced>>
    /\ AudioFrame
    /\ DiaryFrame
    /\ VariantFrame

\* create_tprs_audio for the next day of the file: a date without a title
\* raises; a lesson that exists is left alone unless overwrite_tprs_audio is
\* set; otherwise the text-to-speech engine renders the day, or fails
ConvertDay ==
    /\ pc = "t_audio"
    /\ tq.todo # << >>
    /\ LET day == Head(tq.todo)
           k == DtKey(day.d)
           pending == { r.run : r \in { x \in resynced : x.d = day.d } }
       IN  IF ~HasKey(titles_dict, k)
           THEN /\ pc' = "crashed"
                /\ UNCHANGED <<tq, audio, audioLog, resynced>>
           ELSE \E title \in { TitleWord(DictGet(titles_dict, k).title) } :
                IF AudioSkipped(audio, day.d, title, overwrite_tprs_audio)
                THEN /\ audioLog' = Append(audioLog, [d |-> day.d, skipped |-> TRUE,
                                                      existed |-> TRUE,
                                                      resynced |-> pending])
                     /\ tq' = [tq EXCEPT !.todo = Tail(@)]
                     /\ UNCHANGED <<pc, audio, resynced>>
                ELSE \E rendered \in BOOLEAN :
                     IF rendered
                     THEN /\ audio' = AudioExport(audio, day.d, title, day.units)
                          /\ audioLog' = Append(audioLog, [d |-> day.d, skipped |-> FALSE,
                                                           existed |-> AudioExists(audio, day.d, title),
                                                           resynced |-> pending])
                          /\ resynced' = { x \in resynced : x.d # day.d }
                          /\ tq' = [tq EXCEPT !.todo = Tail(@)]
                          /\ pc' = pc
                     ELSE /\ pc' = "crashed"
                          /\ UNCHANGED <<tq, audio, audioLog, resynced>>
    /\ UNCHANGED <<all_diary_text, titleCalls, parsed, tprsFile, tprsGen, titles_dict,
                   tprs_dict, tprsCalls, tprsSeen, overwrite_tprs_audio>>
    /\ DiaryFrame
    /\ VariantFrame

\* the end of convert_tts_tprs_entries
ConvertEnd ==
    /\ pc = "t_audio"
    /\ tq.todo = << >>
    /\ pc' = "t_converted"
    /\ tq' = NoCalls
    /\ UNCHANGED <<all_diary_text, titleCalls, parsed, tprsFile, tprsGen, titles_dict,
                   tprs_dict, tprsCalls, tprsSeen, overwrite_tprs_audio, resynced>>
    /\ AudioFrame
    /\ DiaryFrame
    /\ VariantFrame

-----------------------------------------------------------------------------
(* main() after add_missing_tprs(): add_missing_tprs_enhanced(),           *)
(* add_missing_tprs_future(), add_missing_tprs_present()                   *)

\* the file at markdown_script_generated_tprs_<variant>_all_path
VariantGenFile(v) == IF overwrite_tprs THEN variantFile[v] ELSE variantGen[v]

\* what the steps on a variant keep of the base artifact and of the audio
BaseFrame ==
    UNCHANGED <<all_diary_text, titleCalls, parsed, tprsFile, tprsGen, tprs_dict,
                tprsCalls, tprsSeen, audioVars>>

\* existing_tprs = self.read_tprs_to_dict() (None without a file)
ExistingTprs ==
    IF TprsSource.isNone THEN [raised |-> FALSE, dict |-> << >>]
    ELSE read_tprs_to_dict(TprsSource.val)

\* the missing dates of the variant v
VariantMissing(v) ==
    MissingDates(extract_dates_from_md(diaryFile), extract_dates_from_md(variantFile[v].val))

\* add_missing_tprs_<variant> up to its first call of the generator
AddVariantStart ==
    /\ pc = "t_done"
    /\ vi <= Len(VariantOrder)
    /\ LET v == VariantOrder[vi]
       IN  /\ variantSeen' = Some([variant |-> v, base |-> tprsFile, baseGen |-> tprsGen,
                                   files |-> variantFile, gens |-> variantGen,
                                   baseCalls |-> Len(tprsCalls),
                                   calls |-> Len(variantCalls)])
           /\ IF variantFile[v].isNone \/ ExistingTprs.raised
              THEN pc' = "crashed" /\ tq' = tq
              ELSE /\ pc' = "v_add"
                   /\ tq' = [op |-> VariantFn(v),
                             todo |-> VariantRequests(ExistingTprs.dict,
                                         KnownMissing(ExistingTprs.dict, VariantMissing(v))),
                             got |-> << >>]
    /\ UNCHANGED <<titles_dict, variantFile, variantGen, vi, variantCalls>>
    /\ BaseFrame
    /\ DiaryFrame

\* one call of openai_tprs_enhanced, _future or _present
VariantGenerate ==
    /\ pc = "v_add"
    /\ tq.todo # << >>
    /\ \E resp \in VariantResponses :
          /\ variantCalls' = Append(variantCalls, [fn |-> tq.op,
                                                   during |-> VariantOrder[vi],
                                                   key |-> Head(tq.todo).key,
                                                   sentence |-> Head(tq.todo).sentence,
                                                   resp |-> resp])
          /\ tq' = [tq EXCEPT !.todo = Tail(@), !.got = Append(@, resp)]
    /\ UNCHANGED <<pc, titles_dict, variantFile, variantGen, vi, variantSeen>>
    /\ BaseFrame
    /\ DiaryFrame

\* the end of add_missing_tprs_<variant>: existing_tprs[dt] has raised for a
\* missing date the base artifact lacks, or the combined file is written
AddVariantWrite ==
    /\ pc = "v_add"
    /\ tq.todo = << >>
    /\ LET v == VariantOrder[vi]
       IN  IF VariantRaises(ExistingTprs.dict, VariantMissing(v))
           THEN /\ pc' = "crashed"
                /\ UNCHANGED <<titles_dict, variantFile, variantGen, vi>>
           ELSE \E w \in { add_missing_tprs_variant(variantFile[v].val, ExistingTprs.dict,
                                                     diaryFile, titles_dict, tq.got) } :
                /\ IF overwrite_tprs
                   THEN /\ variantFile' = [variantFile EXCEPT ![v] = Some(w.text)]
                        /\ variantGen' = variantGen
                   ELSE /\ variantGen' = [variantGen EXCEPT ![v] = Some(w.text)]
                        /\ variantFile' = variantFile
                /\ titles_dict' = w.titles
                /\ vi' = vi + 1
                /\ pc' = IF w.raised THEN "crashed" ELSE "t_done"
    /\ tq' = NoCalls
    /\ UNCHANGED <<variantCalls, variantSeen>>
    /\ BaseFrame
    /\ DiaryFrame

\* the run of main() on artifacts of every variant
InitVariants ==
    /\ pc = "t_start"
    /\ run = 1
    /\ overwrite = TRUE
    /\ auto = FALSE
    /\ diaryExists = TRUE
    /\ diaryFile \in TprsDiaries
    /\ outFile = << >>
    /\ new_diary = FALSE
    /\ diary_new_entries_day = << >>
    /\ typed = << >>
    /\ all_diary_text = << >>
    /\ diary_dict = << >>
    /\ cursor = 1
    /\ parsed = << >>
    /\ startFile = diaryFile
    /\ trCalls = << >>
    /\ titleCalls = << >>
    /\ written = << >>
    /\ prev = NoPrev
    /\ overwrite_tprs \in BOOLEAN
    /\ tprsFile \in TprsArtifacts \ {None}
    /\ tprsGen = None
    /\ titles_dict = << >>
    /\ tprs_dict = << >>
    /\ tq = NoCalls
    /\ tprsCalls = << >>
    /\ tprsSeen = None
    /\ backup = None
    /\ inPlace = FALSE
    /\ audioCfg = FALSE
    /\ overwrite_tprs_audio = FALSE
    /\ audio = << >>
    /\ audioLog = << >>
    /\ resynced = {}
    /\ variantFile \in [Variants -> VariantArtifacts]
    /\ variantGen = [v \in Variants |-> None]
    /\ vi = 1
    /\ variantCalls = << >>
    /\ variantSeen = None
    /\ idLog = << >>
    /\ BlockIdle
    /\ deck = None

NextVariants ==
    \/ TprsCreationInit
    \/ TprsGenerate
    \/ CheckMissingStart
    \/ CheckMissingWrite
    \/ AddMissingStart
    \/ AddMissingWrite
    \/ AddVariantStart
    \/ VariantGenerate
    \/ AddVariantWrite

SpecVariants == InitVariants /\ [][NextVariants]_vars

\* main() is started again on the files the last run left
TprsNextRun ==
    /\ pc \in {"t_converted", "crashed"}
    /\ run < MaxRuns
    /\ run' = run + 1
    /\ pc' = "t_start"
    /\ all_diary_text' = << >>
    /\ parsed' = << >>
    /\ titleCalls' = << >>
    /\ titles_dict' = << >>
    /\ tprs_dict' = << >>
    /\ tq' = NoCalls
    /\ tprsCalls' = << >>
    /\ tprsSeen' = None
    /\ audioLog' = << >>
    /\ UNCHANGED <<overwrite, auto, diaryExists, diaryFile, outFile, new_diary,
                   diary_new_entries_day, typed, diary_dict, cursor, startFile, trCalls,
                   written, prev, overwrite_tprs, tprsFile, tprsGen, backup, inPlace,
                   audioCfg, overwrite_tprs_audio, audio, resynced, idLog, blockVars, deck>>
    /\ VariantFrame

NextTprs ==
    \/ TprsCreationInit
    \/ TprsGenerate
    \/ FirstWrite
    \/ CheckMissingStart
    \/ CheckMissingWrite
    \/ AddMissingStart
    \/ AddMissingWrite
    \/ ConvertStart
    \/ ConvertDay
    \/ ConvertEnd
    \/ TprsNextRun

SpecTprs == InitTprs /\ [][NextTprs]_vars

-----------------------------------------------------------------------------
(* generate_unique_id: the identifiers of the Anki decks and models.  An   *)
(* integer of 256 bits is held as the sequence of its decimal digits.      *)

\* the default of the parameter length
DefaultLength == 9

MaxIdCalls == 2

\* the strings the function is called with
IdInputs == {"test_string", "", "k", "l"}

IdLengths == 1..DefaultLength

\* int(hashlib.sha256(input_string.encode("utf-8")).hexdigest(), 16)
Sha256Int(input_string) ==
    CASE input_string = "test_string" ->
        <<3, 4, 1, 0, 0, 3, 5, 9, 5, 6, 9, 8, 4, 5, 7, 4, 5, 7, 9, 4, 1, 3, 3, 3, 0, 9,
          8, 2, 6, 9, 2, 1, 0, 3, 0, 0, 0, 1, 9, 0, 2, 7, 3, 3, 9, 9, 6, 4, 8, 2, 2, 2,
          6, 4, 0, 2, 9, 0, 6, 6, 0, 8, 3, 8, 6, 2, 9, 9, 7, 2, 3, 5, 9, 8, 8, 6, 5>>
      [] input_string = "" ->
        <<1, 0, 2, 9, 8, 7, 3, 3, 6, 2, 4, 9, 5, 5, 4, 0, 9, 7, 0, 2, 9, 5, 3, 5, 2, 1,
          2, 3, 2, 2, 5, 8, 1, 3, 2, 2, 7, 8, 9, 7, 9, 9, 9, 0, 0, 6, 4, 8, 1, 9, 8, 0,
          3, 4, 9, 9, 3, 3, 7, 9, 3, 9, 7, 0, 0, 1, 1, 1, 5, 6, 6, 5, 0, 8, 6, 5, 4, 9>>
      [] input_string = "k" ->
        <<5, 8, 9, 5, 0, 4, 3, 2, 4, 3, 2, 9, 7, 5, 8, 1, 4, 7, 2, 7, 3, 3, 0, 1, 5, 0,
          4, 9, 5, 8, 1, 2, 5, 1, 6, 8, 5, 2, 2, 0, 5, 6, 2, 4, 3, 5, 4, 7, 7, 2, 4, 7,
          1, 7, 9, 4, 0, 3, 3, 0, 7, 2, 5, 5, 6, 0, 5, 5, 0, 0, 9, 4, 3, 0, 9, 0, 6>>
      [] input_string = "l" ->
        <<7, 8, 1, 0, 2, 6, 3, 7, 6, 8, 6, 0, 0, 9, 7, 8, 5, 9, 1, 0, 5, 1, 1, 3, 6, 5,
          9, 2, 7, 6, 9, 4, 8, 2, 7, 5, 2, 4, 9, 6, 8, 2, 9, 0, 2, 2, 7, 3, 1, 9, 8, 8,
          9, 5, 0, 6, 8, 0, 8, 5, 9, 7, 6, 2, 0, 5, 6, 6, 0, 6, 3, 8, 3, 8, 9, 6, 0>>

\* the integer the digits ds write
RECURSIVE DigitsValue(_)
DigitsValue(ds) ==
    IF ds = << >> THEN 0 ELSE 10 * DigitsValue(Slice(ds, 1, Len(ds) - 1)) + ds[Len(ds)]

\* hash_int % (10**length)
ModPow10(ds, length) == DigitsValue(Slice(ds, Len(ds) - length + 1, Len(ds)))

\* generate_unique_id of __main__
generate_unique_id(input_string, length) == ModPow10(Sha256Int(input_string), length)

\* DiaryHandler.generate_unique_id
handler_generate_unique_id(input_string, length) ==
    ModPow10(Sha256Int(input_string), length)

\* len(str(n)) of an integer that is not negative
RECURSIVE StrLen(_)
StrLen(n) == IF n < 10 THEN 1 ELSE 1 + StrLen(n \div 10)

InitId ==
    /\ pc = "start"
    /\ run = 1
    /\ overwrite = FALSE
    /\ auto = FALSE
    /\ diaryExists = FALSE
    /\ diaryFile = << >>
    /\ outFile = << >>
    /\ new_diary = FALSE
    /\ diary_new_entries_day = << >>
    /\ typed = << >>
    /\ all_diary_text = << >>
    /\ diary_dict = << >>
    /\ cursor = 1
    /\ parsed = << >>
    /\ startFile = << >>
    /\ trCalls = << >>
    /\ titleCalls = << >>
    /\ written = << >>
    /\ prev = NoPrev
    /\ TprsIdle
    /\ backup = None
    /\ inPlace = FALSE
    /\ BlockIdle
    /\ deck = None

\* a call of generate_unique_id(input_string, length)
GenerateUniqueId ==
    /\ Len(idLog) < MaxIdCalls
    /\ \E input_string \in IdInputs : \E length \in IdLengths :
          idLog' = Append(idLog, [fn |-> "generate_unique_id", input |-> input_string,
                                  length |-> length,
                                  id |-> generate_unique_id(input_string, length)])
    /\ UNCHANGED <<pc, run, diaryVars, tprsVars, bakVars, audioVars, variantVars, blockVars, deck>>

\* a call of self.generate_unique_id(input_string, length)
HandlerGenerateUniqueId ==
    /\ Len(idLog) < MaxIdCalls
    /\ \E input_string \in IdInputs : \E length \in IdLengths :
          idLog' = Append(idLog, [fn |-> "DiaryHandler.generate_unique_id",
                                  input |-> input_string, length |-> length,
                                  id |-> handler_generate_unique_id(input_string, length)])
    /\ UNCHANGED <<pc, run, diaryVars, tprsVars, bakVars, audioVars, variantVars, blockVars, deck>>

NextId == GenerateUniqueId \/ HandlerGenerateUniqueId

SpecId == InitId /\ [][NextId]_vars

-----------------------------------------------------------------------------
(* read_tprs_day_block on day blocks of any shape: the marker lines under  *)
(* the header in every order, marker lines without text included.  The     *)
(* copy of the function in tprs.py runs the same loop after another test   *)
(* of the header.                                                          *)

\* the number of lines under the header of a block
MaxBlockLines == 4

BlockLineKinds ==
    { <<"SENT", " ", "a">>, <<"SENT", " ", "b">>, <<"SENT">>,
      <<"QUES", " ", "q">>, <<"QUES", " ", "r">>, <<"QUES">>,
      <<"ANSW", " ", "x">>, <<"ANSW">> }

\* the head of a block as re.split leaves it: the date, then the title
BlockHeads == { <<"D1", ":", " ", "t">>, <<"D1", " ", "t">> }

BlockOf(head, body) == head \o Concat([i \in 1..Len(body) |-> <<NL>> \o body[i]])

DayBlocks ==
    { BlockOf(h, b) : h \in BlockHeads,
                      b \in UNION { [1..n -> BlockLineKinds] : n \in 1..MaxBlockLines } }

\* the date tprs.py's read_tprs_day_block finds at the head of a block:
\* re.match(r"^(\d{4}/\d{2}/\d{2})\s+(.*)", day_block)
LegacyBlockDate(block) ==
    IF Len(block) >= 2 /\ block[1] \in Dates /\ block[2] \in WS THEN block[1]
    ELSE NoDate

\* what read_tprs_day_block returns for a block whose head gave date:
\* (None, None) for a blank block and for one without a date, else the
\* result of the loop over the lines and the date
BlockReturn(block, date) ==
    IF Strip(block) = << >> \/ date = NoDate
    THEN [none |-> TRUE, date |-> NoDate, result |-> << >>]
    ELSE [none |-> FALSE, date |-> date, result |-> read_tprs_day_block(block).result]

InitBlock ==
    /\ pc = "start"
    /\ run = 1
    /\ overwrite = FALSE
    /\ auto = FALSE
    /\ diaryExists = FALSE
    /\ diaryFile = << >>
    /\ outFile = << >>
    /\ new_diary = FALSE
    /\ diary_new_entries_day = << >>
    /\ typed = << >>
    /\ all_diary_text = << >>
    /\ diary_dict = << >>
    /\ cursor = 1
    /\ parsed = << >>
    /\ startFile = << >>
    /\ trCalls = << >>
    /\ titleCalls = << >>
    /\ written = << >>
    /\ prev = NoPrev
    /\ TprsIdle
    /\ backup = None
    /\ inPlace = FALSE
    /\ blockText \in DayBlocks
    /\ blockRead = None
    /\ deck = None

\* a call of TprsCreation.read_tprs_day_block(day_block) of diary.py
ReadTprsDayBlock ==
    /\ blockRead.isNone
    /\ blockRead' = Some([fn |-> "diary.TprsCreation.read_tprs_day_block",
                          ret |-> BlockReturn(blockText, BlockDate(blockText))])
    /\ UNCHANGED <<pc, run, diaryVars, tprsVars, bakVars, audioVars, variantVars, idLog,
                   blockText, deck>>

\* a call of TprsCreation.read_tprs_day_block(day_block) of tprs.py
LegacyReadTprsDayBlock ==
    /\ blockRead.isNone
    /\ blockRead' = Some([fn |-> "tprs.TprsCreation.read_tprs_day_block",
                          ret |-> BlockReturn(blockText, LegacyBlockDate(blockText))])
    /\ UNCHANGED <<pc, run, diaryVars, tprsVars, bakVars, audioVars, variantVars, idLog,
                   blockText, deck>>

NextBlock == ReadTprsDayBlock \/ LegacyReadTprsDayBlock

SpecBlock == InitBlock /\ [][NextBlock]_vars

-----------------------------------------------------------------------------
(* What a reader of a diary file sees, line by line: the day blocks in the *)
(* order of the file, each with the rest of its header line and the        *)
(* primary sentences of its bullets                                        *)

IsBulletLine(line) ==
    /\ Len(line) >= 6
    /\ SubSeq(line, 1, 4) = <<"-", " ", "*", "*">>
    /\ SubSeq(line, Len(line) - 1, Len(line)) = <<"*", "*">>

RECURSIVE FileDays(_, _)
FileDays(lines, acc) ==
    IF lines = << >> THEN acc
    ELSE LET line == Head(lines)
         IN  Only({ FileDays(Tail(lines), a) : a \in {
                IF IsHeaderLine(line)
                THEN Append(acc, [d |-> line[4],
                                  head |-> Slice(line, 5, Len(line)),
                                  bullets |-> << >>])
                ELSE IF IsBulletLine(line) /\ acc # << >>
                THEN [acc EXCEPT ![Len(acc)].bullets =
                                     Append(@, Slice(line, 5, Len(line) - 2))]
                ELSE acc } })

DaysOfFile(text) == FileDays(SplitLines(text), << >>)

\* the line starts (after its indentation) with the marker m
IsMarkerLine(line, m) == Strip(line) # << >> /\ Strip(line)[1] = m

\* the content of a marker line: everything after the marker up to line end
AfterMarker(line) == Strip(Tail(Strip(line)))

\* the entries a reader finds in a diary file, line by line: the date of the
\* header above, the sentence of the bullet and the content of each marker
\* line under it
RECURSIVE EntriesOfLines(_, _, _)
EntriesOfLines(lines, d, acc) ==
    IF lines = << >> THEN acc
    ELSE LET line == Head(lines)
             last == Len(acc)
         IN  Only({ EntriesOfLines(Tail(lines), x[1], x[2]) : x \in {
                IF IsHeaderLine(line) THEN <<line[4], acc>>
                ELSE IF IsBulletLine(line) /\ d # "none"
                THEN <<d, Append(acc, [d |-> d,
                                       primary |-> Strip(Slice(line, 5, Len(line) - 2)),
                                       trial |-> << >>, study |-> << >>, tips |-> << >>,
                                       answerLine |-> FALSE])>>
                ELSE IF last > 0 /\ IsMarkerLine(line, "TRIAL")
                THEN <<d, [acc EXCEPT ![last].trial = AfterMarker(line)]>>
                ELSE IF last > 0 /\ IsMarkerLine(line, "ANSWER")
                THEN <<d, [acc EXCEPT ![last].study = AfterMarker(line),
                                      ![last].answerLine = TRUE]>>
                ELSE IF last > 0 /\ IsMarkerLine(line, "TIPS")
                THEN <<d, [acc EXCEPT ![last].tips = AfterMarker(line)]>>
                ELSE <<d, acc>> } })

FileEntries(text) == EntriesOfLines(SplitLines(text), "none", << >>)

\* the entry now holds everything the entry was holds
Keeps(now, was) ==
    /\ now.d = was.d
    /\ now.primary = was.primary
    /\ was.trial # << >> => now.trial = was.trial
    /\ was.study # << >> => now.study = was.study
    /\ was.tips # << >> => now.tips = was.tips

\* the title a header line shows after its date: the text behind ": "
HasTitle(head) == IndexOf(head, ":", 1) # 0
TitleText(head) == Strip(Slice(head, IndexOf(head, ":", 1) + 1, Len(head)))

\* the first block of the date d that shows a title, 0 when none does
TitledBlock(fd, d) ==
    LET hits == { n \in 1..Len(fd) : fd[n].d = d /\ HasTitle(fd[n].head) }
    IN  IF hits = {} THEN 0 ELSE Min(hits)

\* the first block of the date d
FirstBlock(fd, d) == Min({ n \in 1..Len(fd) : fd[n].d = d })

\* text holds sub as one piece
ContainsSeq(text, sub) ==
    \E i \in 1..(Len(text) - Len(sub) + 1) : SubSeq(text, i, i + Len(sub) - 1) = sub

\* the place of the key k in a dict that holds it
KeyIndex(dict, k) == CHOOSE i \in 1..Len(dict) : dict[i].key = k

\* the four fields of an entry
Fields(e) == <<e.primary, e.trial, e.study, e.tips>>

\* the run has parsed the diary and holds the merged dict
AfterParse == pc \in {"translating", "done"}

-----------------------------------------------------------------------------
(* Properties of the enricher and the writer *)

\* C3: openai_translate_sentence is called only for an entry whose
\* study_language_sentence is ""; an entry that had a study translation when
\* it was parsed stays in its slot of the dict with the four parsed fields,
\* and write_diary writes its block with exactly these
C3_CompleteEntriesKept ==
    /\ \A k \in 1..Len(trCalls) : trCalls[k].req.study = << >>
    /\ AfterParse =>
         \A i \in 1..Len(parsed) : \A j \in 1..Len(parsed[i].sentences) :
            LET s == parsed[i].sentences[j]
            IN  s.e.study # << >> =>
                  /\ HasKey(diary_dict, parsed[i].key)
                  /\ LET day == diary_dict[KeyIndex(diary_dict, parsed[i].key)]
                     IN  /\ Len(day.sentences) >= j
                         /\ day.sentences[j] = s
                  /\ pc = "done" => ContainsSeq(GenText, EntryText(s.e))

\* a run that has enriched an entry of a diary that held a complete one
C3_Witness ==
    /\ pc = "done"
    /\ trCalls # << >>
    /\ \E i \in 1..Len(parsed) : \E j \in 1..Len(parsed[i].sentences) :
          parsed[i].sentences[j].e.study # << >>

\* every entry of the parsed diary has a study translation and every header
\* of the text shows a title, and the user has typed no new entry
FullyEnriched ==
    /\ AfterParse
    /\ ~new_diary
    /\ diary_new_entries_day = << >>
    /\ parsed # << >>
    /\ AllComplete(parsed)
    /\ LET fd == DaysOfFile(all_diary_text)
       IN  /\ Len(fd) = Len(parsed)
           /\ \A n \in 1..Len(fd) : HasTitle(fd[n].head) /\ TitleText(fd[n].head) # << >>

\* C4: a run on a fully enriched diary calls neither collaborator, the diary
\* it writes parses to the structure the run parsed, and a second such run
\* writes the same file as the first
C4_EnrichIdempotent ==
    FullyEnriched =>
       /\ trCalls = << >>
       /\ titleCalls = << >>
       /\ pc = "done" =>
            /\ LET q == ParseBlocks(GenText)
                   m == markdown_diary_to_dict(q, FALSE, << >>)
               IN  ~m.raised /\ m.log = << >> /\ m.dict = parsed
            /\ (prev.done /\ prev.clean) => GenText = prev.out

\* the second of two runs on a fully enriched diary has written
C4_Witness ==
    /\ FullyEnriched
    /\ pc = "done"
    /\ prev.done /\ prev.clean

\* C5 (as the specification states it): a call of the translator that
\* fails or answers without a study translation stops nothing: the run goes on
\* to write the diary, and the entry is written with an empty ANSWER
C5_FailureSkipsEntry ==
    \A k \in 1..Len(trCalls) :
       trCalls[k].resp.kind # "ok" =>
          /\ pc # "crashed"
          /\ pc = "done" =>
               LET e == EntryAt(diary_dict, trCalls[k].place)
               IN  /\ e.study = << >>
                   /\ ContainsSeq(GenText, EntryText(e))

\* the diary a run has written, as the next run parses it: the same days in
\* the same order, the same titles, the same four fields of every entry
SameDiary(p, text, w) ==
    /\ Len(p) = Len(w.dict)
    /\ \A i \in 1..Len(p) :
          /\ p[i].key.d = w.dict[i].key.d
          /\ TitleOrEmpty(get_title_for_date(text, p[i].key.d)) = TitleOrEmpty(w.titles[i])
          /\ Len(p[i].sentences) = Len(w.dict[i].sentences)
          /\ \A j \in 1..Len(p[i].sentences) :
                Fields(p[i].sentences[j].e) = Fields(w.dict[i].sentences[j].e)

\* C6 (as the specification states it): a diary whose entries are all
\* complete, written by write_diary and parsed again, gives the same days in
\* the same order with the same titles and the same fields
C6_RoundTrip ==
    (/\ AfterParse
     /\ overwrite
     /\ prev.done
     /\ prev.w # << >>
     /\ startFile = prev.out
     /\ AllComplete(prev.w[1].dict))
    => SameDiary(parsed, all_diary_text, prev.w[1])

\* C7 (as the specification states it): openai_create_day_title is never
\* called for a day whose header shows a title, and the header written for
\* such a day shows exactly that title
C7_TitleKept ==
    /\ \A k \in 1..Len(titleCalls) : titleCalls[k].header.isNone
    /\ pc = "done" =>
         LET src == DaysOfFile(all_diary_text)
             out == DaysOfFile(GenText)
         IN  \A i \in 1..Len(parsed) :
                LET n == TitledBlock(src, parsed[i].key.d)
                    o == KeyIndex(diary_dict, parsed[i].key)
                IN  n # 0 =>
                      /\ o <= Len(out)
                      /\ HasTitle(out[o].head)
                      /\ TitleText(out[o].head) = TitleText(src[n].head)

\* C8 (as the specification states it): openai_create_day_title is called
\* for a day only when every entry of the day has a study translation; a day
\* that has an incomplete entry and no title in its header is written
\* without a title
C8_TitleOnlyWhenComplete ==
    /\ \A k \in 1..Len(titleCalls) : titleCalls[k].complete
    /\ pc = "done" =>
         LET src == DaysOfFile(all_diary_text)
             out == DaysOfFile(GenText)
         IN  \A o \in 1..Len(diary_dict) :
                (/\ ~DayComplete(diary_dict[o])
                 /\ TitledBlock(src, diary_dict[o].key.d) = 0)
                => (o <= Len(out) /\ ~HasTitle(out[o].head))

\* C9: the entries of a parsed day keep their order and their numbers; the
\* result of a call of the translator is stored in the slot the call was made
\* for, every other slot holds what was parsed; the bullets of the day are
\* written in this order
C9_EntryOrderKept ==
    AfterParse =>
       /\ \A i \in 1..Len(parsed) :
             /\ HasKey(diary_dict, parsed[i].key)
             /\ LET o == KeyIndex(diary_dict, parsed[i].key)
                    day == diary_dict[o]
                IN  /\ Len(day.sentences) = Len(parsed[i].sentences)
                    /\ \A j \in 1..Len(day.sentences) :
                          LET was == parsed[i].sentences[j]
                              now == day.sentences[j]
                              calls == { k \in 1..Len(trCalls) : trCalls[k].place = <<o, j>> }
                          IN  /\ now.no = was.no
                              /\ now.e.trial = was.e.trial
                              /\ calls = {} => now = was
                              /\ \A k \in calls :
                                    /\ trCalls[k].req = was.e
                                    /\ trCalls[k].resp.kind = "raise"
                                       \/ (/\ now.e.study = trCalls[k].resp.study
                                           /\ now.e.tips = trCalls[k].resp.tips)
       /\ pc = "done" =>
            LET out == DaysOfFile(GenText)
            IN  /\ Len(out) = Len(diary_dict)
                /\ \A o \in 1..Len(out) :
                      out[o].bullets = [j \in 1..Len(diary_dict[o].sentences) |->
                                           diary_dict[o].sentences[j].e.primary]

\* a day of three entries whose second one has been enriched, written
C9_Witness ==
    /\ pc = "done"
    /\ \E k \in 1..Len(trCalls) :
          /\ trCalls[k].place[2] = 2
          /\ Len(diary_dict[trCalls[k].place[1]].sentences) = 3

\* C10: the days of the parsed dict stand in the order in which their dates
\* first have a header in the text, whatever the dates are; the merge and the
\* loop of the enricher keep this order, and write_diary writes the day
\* blocks in the order of the dict
C10_DayOrderKept ==
    AfterParse =>
       /\ LET src == DaysOfFile(all_diary_text)
          IN  \A a, b \in 1..Len(parsed) :
                 a < b => FirstBlock(src, parsed[a].key.d) < FirstBlock(src, parsed[b].key.d)
       /\ \A a, b \in 1..Len(parsed) :
             a < b => /\ HasKey(diary_dict, parsed[a].key)
                      /\ HasKey(diary_dict, parsed[b].key)
                      /\ KeyIndex(diary_dict, parsed[a].key) < KeyIndex(diary_dict, parsed[b].key)
       /\ pc = "done" =>
            LET out == DaysOfFile(GenText)
            IN  [o \in 1..Len(out) |-> out[o].d]
                   = [o \in 1..Len(diary_dict) |-> diary_dict[o].key.d]

\* a diary whose later date stands first has been enriched and written
C10_Witness ==
    /\ pc = "done"
    /\ trCalls # << >>
    /\ \E a, b \in 1..Len(parsed) :
          a < b /\ DateOrd(parsed[a].key.d) > DateOrd(parsed[b].key.d)

-----------------------------------------------------------------------------
(* Properties of the synchronizer of the question/answer artifact *)

\* the calls of openai_tprs that check_missing_sentences_from_existing_tprs made
CheckCalls == { n \in 1..Len(tprsCalls) : tprsCalls[n].op = "check" }

\* sentence is the study sentence of an entry of the day k of the diary
DiaryHas(dict, k, sentence) ==
    /\ HasKey(dict, k)
    /\ \E j \in 1..Len(DictGet(dict, k).sentences) :
          DictGet(dict, k).sentences[j].e.study = sentence

\* the artifact dict holds the unit u under the day k
HoldsUnit(dict, k, u) ==
    /\ HasKey(dict, k)
    /\ HasUnit(DictGet(dict, k).units, u.sentence)
    /\ UnitOf(DictGet(dict, k).units, u.sentence).qa = u.qa

\* C1: check_missing_sentences_from_existing_tprs calls openai_tprs only for
\* a (date, sentence) of the diary that the artifact it read does not hold;
\* for a unit the artifact holds whose sentence is a study sentence of that
\* date it makes no call, and the artifact it writes holds the unit with the
\* same question/answer pairs, as the same text
C1_SyncKeepsUnits ==
    pc \in {"t_check", "t_checked"} =>
       /\ \A c \in CheckCalls :
             /\ DiaryHas(parsed, tprsCalls[c].key, tprsCalls[c].sentence)
             /\ ~(/\ HasKey(tprs_dict, tprsCalls[c].key)
                  /\ HasUnit(DictGet(tprs_dict, tprsCalls[c].key).units,
                             tprsCalls[c].sentence))
       /\ \A i \in 1..Len(tprs_dict) : \A n \in 1..Len(tprs_dict[i].units) :
             LET k == tprs_dict[i].key
                 u == tprs_dict[i].units[n]
             IN  DiaryHas(parsed, k, u.sentence) =>
                   /\ \A c \in CheckCalls :
                         ~(tprsCalls[c].key = k /\ tprsCalls[c].sentence = u.sentence)
                   /\ pc = "t_checked" =>
                        /\ ~TprsGenFile.isNone
                        /\ HoldsUnit(read_tprs_to_dict(TprsGenFile.val).dict, k, u)
                        /\ ContainsSeq(TprsGenFile.val, UnitText(u))

\* the artifact held two units of the diary and lacked a third, which the
\* synchronizer has generated and written
C1_Witness ==
    /\ pc = "t_checked"
    /\ CheckCalls # {}
    /\ \E i \in 1..Len(tprs_dict) : \E j \in 1..Len(tprs_dict) :
          /\ i # j
          /\ DiaryHas(parsed, tprs_dict[i].key, tprs_dict[i].units[1].sentence)
          /\ DiaryHas(parsed, tprs_dict[j].key, tprs_dict[j].units[1].sentence)

\* C2 (as the specification states it): every unit the artifact file held
\* before check_missing_sentences_from_existing_tprs or add_missing_tprs is
\* in that file after the call, with the same question/answer pairs
C2_SyncAdditive ==
    (pc \in {"t_checked", "t_done"} /\ ~tprsSeen.isNone /\ ~TprsGenFile.isNone) =>
       LET before == read_tprs_to_dict(tprsSeen.val).dict
           after == read_tprs_to_dict(TprsGenFile.val).dict
       IN  \A i \in 1..Len(before) : \A n \in 1..Len(before[i].units) :
              HoldsUnit(after, before[i].key, before[i].units[n])

-----------------------------------------------------------------------------
(* Properties of the backup of the diary *)

\* C11 (as the specification states it): when the file at
\* markdown_diary_path has been written in a run or a request, a backup copy
\* of what it held before was made in that run or request; without the
\* backup the file is not written
C11_BackupBeforeRewrite ==
    inPlace => (~backup.isNone /\ backup.val = startFile)

\* C13: an entry the translator has answered for holds the trial
\* translation it was parsed (or typed) with, whatever trial translation the
\* response holds, and the run writes the entry with this trial translation
C13_TrialPassedThrough ==
    \A k \in 1..Len(trCalls) :
       LET pl == trCalls[k].place
           day == diary_dict[pl[1]]
           now == EntryAt(diary_dict, pl)
       IN  trCalls[k].resp.kind # "raise" =>
             /\ now.trial = trCalls[k].req.trial
             /\ HasKey(parsed, day.key) =>
                   parsed[KeyIndex(parsed, day.key)].sentences[pl[2]].e.trial = now.trial
             /\ pc = "done" => ContainsSeq(GenText, BulletText(now) \o TrialText(now))

\* an entry parsed with a trial translation has been enriched from a response
\* that holds another trial translation, and written
C13_Witness ==
    /\ pc = "done"
    /\ \E k \in 1..Len(trCalls) :
          /\ trCalls[k].resp.kind = "ok"
          /\ trCalls[k].req.trial # << >>
          /\ trCalls[k].resp.trial # trCalls[k].req.trial
          /\ HasKey(parsed, diary_dict[trCalls[k].place[1]].key)

\* the file at markdown_script_generated_diary_path as the run found it
FoundText == IF overwrite THEN startFile ELSE IF run = 1 THEN << >> ELSE prev.out

-----------------------------------------------------------------------------
(* Properties of the run on diaries of any shape *)

\* C12 (as the specification states it): when the run has written the diary,
\* every entry the diary file held before the run is in the diary written,
\* under its date, with its sentence and each of its non-empty fields
C12_NeverLessComplete ==
    pc = "done" =>
       LET before == FileEntries(startFile)
           after == FileEntries(GenText)
       IN  \A n \in 1..Len(before) : \E k \in 1..Len(after) : Keeps(after[k], before[n])

\* C14 (as the specification states it): the parse of a diary succeeds, and
\* a header without an entry under it gives a day of its date with the title
\* of the header and no entry
C14_EmptyDayParsed ==
    [][ (pc = "prompted" /\ pc' # "prompted") =>
          /\ pc' = "translating"
          /\ LET fd == DaysOfFile(ReadMarkdown(diaryFile))
             IN  \A n \in 1..Len(fd) :
                    fd[n].bullets = << >> =>
                       /\ HasKey(parsed', DtKey(fd[n].d))
                       /\ LET day == parsed'[KeyIndex(parsed', DtKey(fd[n].d))]
                          IN  /\ day.sentences = << >>
                              /\ HasTitle(fd[n].head) =>
                                    day.title = Some(TitleText(fd[n].head)) ]_vars

\* the parsed dict holds an entry of the date d with the sentence primary
\* and the study translation study
ParsedHas(d, primary, study) ==
    \E i \in 1..Len(parsed) : \E j \in 1..Len(parsed[i].sentences) :
       /\ parsed[i].key.d = d
       /\ parsed[i].sentences[j].e.primary = primary
       /\ parsed[i].sentences[j].e.study = study

\* C15 (as the specification states it): an entry block without the line of
\* the answer marker is parsed as an entry of its own with an empty study
\* translation, and the entries after it in the day are parsed as their own
\* entries
C15_NoAnswerEntryParsed ==
    AfterParse =>
       LET fe == FileEntries(all_diary_text)
       IN  \A n \in 1..Len(fe) :
              ~fe[n].answerLine =>
                 /\ ParsedHas(fe[n].d, fe[n].primary, << >>)
                 /\ \A m \in (n + 1)..Len(fe) :
                       fe[m].d = fe[n].d => ParsedHas(fe[m].d, fe[m].primary, fe[m].study)

\* C18 (as the specification states it): the synchronizer calls openai_tprs
\* only for a study translation that is not empty, at most once for a (date,
\* sentence) in a run, and every unit of the artifact it has written is the
\* study translation, not empty, of an entry of that date of the diary
C18_UnitsOfAnswersOnly ==
    /\ \A n \in 1..Len(tprsCalls) : tprsCalls[n].sentence # << >>
    /\ \A n \in 1..Len(tprsCalls) : \A m \in 1..Len(tprsCalls) :
          (tprsCalls[n].key = tprsCalls[m].key
           /\ tprsCalls[n].sentence = tprsCalls[m].sentence) => n = m
    /\ pc = "t_checked" =>
          LET new == read_tprs_to_dict(TprsGenFile.val).dict
          IN  \A i \in 1..Len(new) : \A n \in 1..Len(new[i].units) :
                 /\ new[i].units[n].sentence # << >>
                 /\ DiaryHas(parsed, new[i].key, new[i].units[n].sentence)

\* an artifact file that read_tprs_to_dict reads without raising
Parseable(file) == file.isNone \/ ~read_tprs_to_dict(file.val).raised

\* the artifact files while the run waits for openai_tprs or for the
\* text-to-speech engine: each is whole, the file a finished write left or
\* the one the run found
ArtifactsWhole ==
    (pc \in {"t_first", "t_check", "t_add", "t_audio"} /\ tq.todo # << >>) =>
       /\ Parseable(tprsFile) /\ Parseable(tprsGen)
       /\ diaryFile = startFile

-----------------------------------------------------------------------------
(* Properties of the audio conversion                                      *)

\* C16 (as the specification states it): when the sync has regenerated a unit
\* of a day, the next audio conversion of that day renders it again and does
\* not skip it as already processed
C16_ResyncedDayRendered ==
    \A n \in 1..Len(audioLog) : audioLog[n].skipped => audioLog[n].resynced = {}

-----------------------------------------------------------------------------
(* Properties of the synchronizer of the variants                          *)

\* the dates of the headers of an artifact file
DatesOfFile(file) == IF file.isNone THEN << >> ELSE extract_dates_from_md(file.val)

\* when the last add_missing_tprs_<variant> began, the diary had the date d,
\* the variant v lacked it, and the base artifact and the other variants had it
MissingOnlyIn(d, v) ==
    /\ InSeq(extract_dates_from_md(diaryFile), d)
    /\ ~InSeq(DatesOfFile(variantSeen.val.files[v]), d)
    /\ InSeq(DatesOfFile(variantSeen.val.base), d)
    /\ \A w \in Variants \ {v} : InSeq(DatesOfFile(variantSeen.val.files[w]), d)

\* every unit the file before held under a date other than d is a unit of
\* the file after
CarriedForward(before, after, d) ==
    /\ ~after.isNone
    /\ LET old == read_tprs_to_dict(before.val).dict
           new == read_tprs_to_dict(after.val).dict
       IN  \A i \in 1..Len(old) : \A n \in 1..Len(old[i].units) :
              old[i].key.d # d => HoldsUnit(new, old[i].key, old[i].units[n])

\* C17 (as the specification states it): when a date is missing from one
\* variant only, the add_missing_tprs call for that variant writes a block
\* for the date into the variant, makes no generation call for the date for
\* another variant, changes no other artifact, and carries the blocks the
\* variant had for other dates forward unchanged
C17_VariantsIndependent ==
    (pc = "t_done" /\ ~variantSeen.isNone) =>
       LET v == variantSeen.val.variant
       IN  \A d \in Dates : MissingOnlyIn(d, v) =>
              /\ ~VariantGenFile(v).isNone
              /\ HasKey(read_tprs_to_dict(VariantGenFile(v).val).dict, DtKey(d))
              /\ Len(tprsCalls) = variantSeen.val.baseCalls
              /\ \A c \in (variantSeen.val.calls + 1)..Len(variantCalls) :
                    variantCalls[c].fn = VariantFn(v)
              /\ tprsFile = variantSeen.val.base
              /\ tprsGen = variantSeen.val.baseGen
              /\ \A w \in Variants \ {v} :
                    /\ variantFile[w] = variantSeen.val.files[w]
                    /\ variantGen[w] = variantSeen.val.gens[w]
              /\ CarriedForward(variantSeen.val.files[v], VariantGenFile(v), d)

-----------------------------------------------------------------------------
(* Properties of generate_unique_id                                        *)

\* C20 (as the specification states it): generate_unique_id gives the same
\* id for the same string and length, and the id is an integer that is not
\* negative and is written with exactly length decimal digits
C20_IdHasLengthDigits ==
    /\ \A n \in 1..Len(idLog) : \A m \in 1..Len(idLog) :
          (idLog[n].input = idLog[m].input /\ idLog[n].length = idLog[m].length)
             => idLog[n].id = idLog[m].id
    /\ \A n \in 1..Len(idLog) :
          /\ idLog[n].id >= 0
          /\ StrLen(idLog[n].id) = idLog[n].length

-----------------------------------------------------------------------------
(* Properties of the template matcher                                      *)

\* the number of the entry fe[n] among the entries of its date, from 1
NthOfDate(fe, n) == Cardinality({ m \in 1..n : fe[m].d = fe[n].d })

\* the parsed dict holds, for the n-th entry a reader finds in the text, an
\* entry at the same place of the same date whose fields f hold what the
\* marker lines of the entry hold
ParsedAsRead(fe, n, f) ==
    /\ HasKey(parsed, DtKey(fe[n].d))
    /\ LET day == parsed[KeyIndex(parsed, DtKey(fe[n].d))]
           j == NthOfDate(fe, n)
       IN  /\ Len(day.sentences) >= j
           /\ "trial" \in f => day.sentences[j].e.trial = fe[n].trial
           /\ "study" \in f => day.sentences[j].e.study = fe[n].study
           /\ "tips" \in f => day.sentences[j].e.tips = fe[n].tips

\* the diary the run has parsed was written by hand after the template or by
\* a write_diary that returned: no block of it was cut short
WholeDiary == run = 1 \/ prev.done

\* C21 (as the specification states it): every entry of the diary text is
\* parsed, and its trial translation, study translation and tips are what
\* follows the marker on the marker's line, trimmed; a marker with nothing
\* after it gives the empty string
C21_FieldsAreLineContents ==
    (AfterParse /\ WholeDiary) =>
       LET fe == FileEntries(all_diary_text)
       IN  \A n \in 1..Len(fe) : ParsedAsRead(fe, n, {"trial", "study", "tips"})

\* the same for the trial and the study translation alone, and for the tips
\* that hold no "-"
C21_FieldsBeforeDash ==
    (AfterParse /\ WholeDiary) =>
       LET fe == FileEntries(all_diary_text)
       IN  \A n \in 1..Len(fe) :
              /\ ParsedAsRead(fe, n, {"trial", "study"})
              /\ IndexOf(fe[n].tips, "-", 1) = 0 => ParsedAsRead(fe, n, {"tips"})

-----------------------------------------------------------------------------
(* Properties of the days of the diary                                     *)

\* no two days of the dict are of the same calendar date
OneDayPerDate(dict) ==
    \A i \in 1..Len(dict) : \A j \in 1..Len(dict) :
       dict[i].key.d = dict[j].key.d => i = j

\* C22 (as the specification states it): every dict handed to write_diary
\* holds at most one day for a calendar date, and the file a run has written
\* has at most one header for a date
C22_OneDayPerDate ==
    /\ \A n \in 1..Len(written) : OneDayPerDate(written[n].dict)
    /\ pc = "done" =>
          LET out == DaysOfFile(GenText)
          IN  \A a \in 1..Len(out) : \A b \in 1..Len(out) : out[a].d = out[b].d => a = b

\* the dict the parser returns holds one day for a date
C22_ParsedOneDayPerDate ==
    OneDayPerDate(parsed)

-----------------------------------------------------------------------------
(* Properties of the invalidation of the audio lessons                     *)

\* the sync of this run has called openai_tprs for a sentence of the date d
Regenerated(d) == \E k \in 1..Len(tprsCalls) : tprsCalls[k].key.d = d

\* C23 (as the specification states it): with overwrite_tprs_audio configured
\* false, the conversion skips every day whose audio lesson exists and of
\* which the sync has regenerated no unit, whatever it has regenerated for
\* other days
C23_OtherDaysSkipped ==
    \A n \in 1..Len(audioLog) :
       (/\ ~audioCfg
        /\ audioLog[n].existed
        /\ audioLog[n].resynced = {}
        /\ ~Regenerated(audioLog[n].d))
       => audioLog[n].skipped

\* the same when the sync of the run has regenerated nothing at all
C23_SkippedAfterQuietSync ==
    \A n \in 1..Len(audioLog) :
       (/\ ~audioCfg
        /\ audioLog[n].existed
        /\ tprsCalls = << >>)
       => audioLog[n].skipped

-----------------------------------------------------------------------------
(* Properties of the two steps of the sync of the base artifact            *)

\* the artifact file holds a unit for the study sentence of every complete
\* entry of the parsed diary, under the date of the entry
CoversDiary(file) ==
    /\ ~file.isNone
    /\ LET art == read_tprs_to_dict(file.val).dict
       IN  \A i \in 1..Len(parsed) : \A j \in 1..Len(parsed[i].sentences) :
              LET sentence == parsed[i].sentences[j].e.study
              IN  sentence # << >> =>
                    /\ HasKey(art, parsed[i].key)
                    /\ HasUnit(DictGet(art, parsed[i].key).units, sentence)

\* C24 (as the specification states it): when add_missing_tprs has returned
\* after check_missing_sentences_from_existing_tprs, the artifact file written
\* holds a unit for every study sentence of the diary, the units the first
\* step has backfilled included
C24_BackfillKept ==
    pc = "t_done" => CoversDiary(TprsGenFile)

\* the same for overwrite_tprs_markdown true alone, and after the first step
C24_BackfillKeptInPlace ==
    /\ (pc = "t_done" /\ overwrite_tprs) => CoversDiary(TprsGenFile)
    /\ (pc = "t_checked" /\ parsed # << >>) => CoversDiary(TprsGenFile)

-----------------------------------------------------------------------------
(* Properties of the prompt for the entries of today                       *)

\* the dict _prompt_new_diary_entry has built in this run: the one kept for
\* diary_complete_translations, or with a new diary the one written at once
PromptedDict ==
    IF diary_new_entries_day # << >> THEN diary_new_entries_day
    ELSE IF new_diary /\ written # << >> THEN written[1].dict
    ELSE << >>

\* the day holds the first n sentences typed, numbered from 0 in the order
\* typed, each with its trial translation and nothing else
HoldsTyped(day, n) ==
    /\ Len(day.sentences) = n
    /\ \A j \in 1..n :
          /\ day.sentences[j].no = j - 1
          /\ day.sentences[j].e.primary = typed[j].primary
          /\ day.sentences[j].e.trial = typed[j].trial

\* C25 (as the specification states it): when the user has typed n >= 1
\* sentences, the dict built holds one day, of today, with the n sentences
\* numbered 0..n-1 in the order typed, each with the primary sentence and the
\* trial translation typed and with empty study translation and tips
C25_PromptKeepsAllTyped ==
    (pc = "prompted" /\ typed # << >>) =>
       /\ Len(PromptedDict) = 1
       /\ PromptedDict[1].key.d = Today
       /\ HoldsTyped(PromptedDict[1], Len(typed))
       /\ \A j \in 1..Len(PromptedDict[1].sentences) :
             /\ PromptedDict[1].sentences[j].e.study = << >>
             /\ PromptedDict[1].sentences[j].e.tips = << >>

\* the same for one sentence typed
C25_PromptKeepsOneTyped ==
    (pc = "prompted" /\ Len(typed) = 1) =>
       /\ Len(PromptedDict) = 1
       /\ PromptedDict[1].key.d = Today
       /\ HoldsTyped(PromptedDict[1], 1)
       /\ Fields(PromptedDict[1].sentences[1].e)
             = <<typed[1].primary, typed[1].trial, << >>, << >> >>


\* the diary text holds, under a header of today, the entry e as it was
\* collected or as the translator has answered for it: its trial translation,
\* and its primary sentence or the one of the translator's response
InFileToday(text, e) ==
    LET fe == FileEntries(text)
    IN  \E k \in 1..Len(fe) :
           /\ fe[k].d = Today
           /\ fe[k].trial = e.trial
           /\ \/ fe[k].primary = e.primary
              \/ \E c \in 1..Len(trCalls) :
                    /\ trCalls[c].req.primary = e.primary
                    /\ ~trCalls[c].resp.echo
                    /\ fe[k].primary = FixedPrimary

\* C26 (as the specification states it): when diary_complete_translations has
\* returned, every entry prompt_new_diary_entry has collected in the run is
\* in the file at markdown_script_generated_diary_path, whether the diary
\* file was there or was created by the run, and whether
\* overwrite_diary_markdown is set or not
C26_CollectedEntriesWritten ==
    (pc = "done" /\ typed # << >>) =>
       /\ PromptedDict # << >>
       /\ \A j \in 1..Len(PromptedDict[1].sentences) :
             InFileToday(GenText, PromptedDict[1].sentences[j].e)

\* the same but for a diary file created by the run with
\* overwrite_diary_markdown false
C26_WrittenUnlessNewCopy ==
    (pc = "done" /\ typed # << >> /\ (~new_diary \/ overwrite)) =>
       /\ PromptedDict # << >>
       /\ \A j \in 1..Len(PromptedDict[1].sentences) :
             InFileToday(GenText, PromptedDict[1].sentences[j].e)

-----------------------------------------------------------------------------
(* Properties of the fields the enricher may not change                    *)

\* C27 (as the specification states it): an entry the translator has
\* answered for holds the primary sentence it was handed to the translator
\* with, whatever primary sentence the response holds, and the run writes the
\* entry with this primary sentence
C27_PrimaryKept ==
    \A k \in 1..Len(trCalls) :
       trCalls[k].resp.kind # "raise" =>
          /\ EntryAt(diary_dict, trCalls[k].place).primary = trCalls[k].req.primary
          /\ pc = "done" => ContainsSeq(GenText, BulletText(trCalls[k].req))

\* the same for the responses that hold the primary sentence they were given
C27_PrimaryKeptWhenEchoed ==
    \A k \in 1..Len(trCalls) :
       (trCalls[k].resp.kind # "raise" /\ trCalls[k].resp.echo) =>
          /\ EntryAt(diary_dict, trCalls[k].place).primary = trCalls[k].req.primary
          /\ pc = "done" => ContainsSeq(GenText, BulletText(trCalls[k].req))

-----------------------------------------------------------------------------
(* Properties of read_tprs_day_block                                       *)

\* the lines of the block under its header, each stripped
BodyLines(block) ==
    LET ls == SplitLines(block)
    IN  [i \in 1..(Len(ls) - 1) |-> Strip(ls[i + 1])]

\* the line starts with the marker m
IsLineOf(line, m) == line # << >> /\ line[1] = m

\* the text of a marker line after its marker
LineText(line) == Strip(Tail(line))

\* the last sentence line before the line i, 0 if none
SentenceBefore(ls, i) ==
    LET hits == { s \in 1..(i - 1) : IsLineOf(ls[s], "SENT") }
    IN  IF hits = {} THEN 0 ELSE -Min({ -s : s \in hits })

\* the last question line between the lines s and i, 0 if none
QuestionBetween(ls, s, i) ==
    LET hits == { q \in (s + 1)..(i - 1) : IsLineOf(ls[q], "QUES") }
    IN  IF hits = {} THEN 0 ELSE -Min({ -q : q \in hits })

\* the answer lines that record a pair, as the claim has them: the line i is
\* an answer line, the last sentence line before it holds a sentence, the
\* latest question line between the two holds a question, and no recorded
\* answer stands between that question line and i
RecordedAnswers(ls) ==
    LET R[i \in 0..Len(ls)] ==
            IF i = 0 THEN {}
            ELSE LET s == SentenceBefore(ls, i)
                     q == IF s = 0 THEN 0 ELSE QuestionBetween(ls, s, i)
                 IN  IF /\ IsLineOf(ls[i], "ANSW")
                        /\ s # 0 /\ LineText(ls[s]) # << >>
                        /\ q # 0 /\ LineText(ls[q]) # << >>
                        /\ \A j \in R[i - 1] : ~(q < j)
                     THEN R[i - 1] \cup {i}
                     ELSE R[i - 1]
    IN  R[Len(ls)]

\* the pair the recorded answer line i gives, and the sentence it goes under
PairAt(ls, i) ==
    [sentence |-> LineText(ls[SentenceBefore(ls, i)]),
     question |-> LineText(ls[QuestionBetween(ls, SentenceBefore(ls, i), i)]),
     answer |-> LineText(ls[i])]

\* the pairs the claim has under the sentence, in the order of the file
RECURSIVE PairsUnder(_, _, _, _)
PairsUnder(ls, rec, sentence, i) ==
    IF i > Len(ls) THEN << >>
    ELSE (IF i \in rec /\ PairAt(ls, i).sentence = sentence
          THEN <<[question |-> PairAt(ls, i).question, answer |-> PairAt(ls, i).answer]>>
          ELSE << >>) \o PairsUnder(ls, rec, sentence, i + 1)

\* the result of the function holds exactly the pairs of the recorded answer
\* lines, under their sentences, in the order of the file
ResultAsClaimed(block, result) ==
    LET ls == BodyLines(block)
        rec == RecordedAnswers(ls)
    IN  /\ \A i \in rec : HasUnit(result, PairAt(ls, i).sentence)
        /\ \A n \in 1..Len(result) :
              result[n].qa = PairsUnder(ls, rec, result[n].sentence, 1)

PlainBlock(ls) ==
    \A q \in 1..Len(ls) : \A s \in 1..Len(ls) : \A a \in 1..Len(ls) :
        ~(/\ q < s /\ s < a
          /\ IsLineOf(ls[q], "QUES") /\ IsLineOf(ls[s], "SENT") /\ IsLineOf(ls[a], "ANSW"))

\* the same for the blocks whose questions are answered under their sentence
C28_PairsOfPlainBlocks ==
    (~blockRead.isNone /\ ~blockRead.val.ret.none /\ PlainBlock(BodyLines(blockText))) =>
       ResultAsClaimed(blockText, blockRead.val.ret.result)

\* a plain block with a pair under a sentence has been read
C28_PlainReached ==
    /\ ~blockRead.isNone /\ ~blockRead.val.ret.none
    /\ PlainBlock(BodyLines(blockText))
    /\ \E n \in 1..Len(blockRead.val.ret.result) : Len(blockRead.val.ret.result[n].qa) >= 1

-----------------------------------------------------------------------------
(* Properties of the title calls of one run                                *)

\* no two calls of openai_create_day_title of the log are for one date
OncePerDay(log) ==
    \A j \in 1..Len(log) : \A k \in 1..Len(log) : (j < k) => log[j].key.d # log[k].key.d

\* the calls of the run from markdown_diary_to_dict on: with a new diary
\* prompt_new_diary_entry has written what was typed, with one call for the
\* title of today
CallsOfCompletion ==
    SubSeq(titleCalls, (IF new_diary /\ typed # << >> THEN 2 ELSE 1), Len(titleCalls))

\* the titles of the last write_diary of the run, one per day of its dict
LastTitles == written[Len(written)].titles

\* C29 (as the specification states it): within one run of DiaryHandler
\* (markdown_diary_to_dict, enrichment, write_diary) openai_create_day_title
\* is called at most once for a day, and the title a day has in the parsed
\* dict is the title write_diary puts in its header
C29_TitleOncePerDay ==
    /\ OncePerDay(CallsOfCompletion)
    /\ (pc = "done" /\ written # << >>) =>
          \A i \in 1..Len(parsed) :
             LET o == KeyIndex(diary_dict, parsed[i].key)
             IN  (~parsed[i].title.isNone /\ o <= Len(LastTitles))
                    => LastTitles[o] = parsed[i].title

\* the same for a run over an existing diary with an entry left to enrich,
\* where nothing was typed at the prompt
C29_OncePerDayWhenParsedIncomplete ==
    (/\ pc \in {"translating", "done"}
     /\ ~new_diary
     /\ diary_new_entries_day = << >>
     /\ ~AllComplete(parsed))
    => OncePerDay(CallsOfCompletion)

\* such a run has called for a title
C29_CalledWhenParsedIncomplete ==
    /\ pc = "done"
    /\ ~new_diary
    /\ diary_new_entries_day = << >>
    /\ ~AllComplete(parsed)
    /\ titleCalls # << >>

-----------------------------------------------------------------------------
(* Properties of the deck                                                  *)

\* the deck holds a note for the entry e of the date d
HasNote(notes, d, e) ==
    \E n \in 1..Len(notes) :
       /\ notes[n].d = d
       /\ notes[n].primary = Strip(RemoveStarStar(e.primary))
       /\ notes[n].study = Strip(RemoveStarStar(e.study))

\* every entry the translator has answered for in this run, as
\* diary_complete_translations wrote it, has its note
EnrichedHaveNotes ==
    \A k \in 1..Len(trCalls) :
       LET pl == trCalls[k].place
           now == EntryAt(diary_dict, pl)
       IN  (trCalls[k].resp.kind = "ok" /\ now.study # << >>)
              => /\ ~deck.val.raised
                 /\ HasNote(deck.val.notes, diary_dict[pl[1]].key.d, now)

\* C30 (as the specification states it): in one run of DiaryHandler
\* convert_diary_entries_to_ankideck makes its notes from what
\* diary_complete_translations wrote: every entry enriched in the run has a
\* note in the deck, with overwrite_diary_markdown true and with false
C30_EnrichedEntriesGetNotes ==
    ~deck.isNone => EnrichedHaveNotes

\* the same for the runs that write the diary in place
C30_NotesWhenInPlace ==
    (~deck.isNone /\ overwrite) => EnrichedHaveNotes

\* a run that writes the diary in place has enriched an entry and made the deck
C30_DeckMadeInPlace ==
    /\ ~deck.isNone
    /\ overwrite
    /\ \E k \in 1..Len(trCalls) : trCalls[k].resp.kind = "ok"
    /\ deck.val.notes # << >>

====
